---- MODULE Spec2Model ----
(***************************************************************************)
(* gorilla/template v0: the template-inheritance resolver (inline.go, the  *)
(* second, current version of parentList .. cleanupBlock) and the escaper  *)
(* pipeline injector (escape/pipeline.go).                                 *)
(*                                                                         *)
(* Spec      inlineTree on a parsed tree, one action per call made by      *)
(*           inlineTree (compilationOrder, then inlineDefine per name).    *)
(* StepSpec  the same pass with every loop iteration and every recursion   *)
(*           of parentList, compilationOrder and inlineDefine as a step;   *)
(*           FairStepSpec adds the fairness of a running goroutine.        *)
(* PipeSpec  ensurePipelineContains applied to a pipeline, twice.          *)
(* SetSpec   goroutines calling Parse, Escape, Funcs, Clone and Compile on *)
(*           a Set and on its clone (inline.go, Set).                      *)
(* EscSpec   the escaping pass of Compile on a tree of one Define.         *)
(* HeapSpec  inlineTree on a tree whose ListNodes are objects of the heap, *)
(*           run a second time on its own result.                          *)
(* ExecSpec  Execute on a Set of two Defines whose escape flag is set.     *)
(* FillSpec  inlineDefine on a child of a root, over all pairs of bodies.  *)
(***************************************************************************)
EXTENDS Naturals, Integers, Sequences, FiniteSets, TLC

VARIABLES
    tree,     \* parse.Tree: template name -> [Parent, List]
    tree0,    \* the tree as the parser left it (history, never written)
    pc,       \* position inside inlineTree
    order,    \* inlineTree's local `order`
    idx,      \* index of the next name of `order` to inline (1-based)
    err,      \* the error inlineTree returns, [kind, names]
    deps,     \* compilationOrder's local `deps` (StepSpec)
    todo,     \* names of the tree not yet visited by `range tree` (StepSpec)
    cur,      \* parentList's locals [name, deps] (StepSpec)
    scan,     \* compilationOrder's inner index i (StepSpec)
    cmds,     \* p.Cmds of the pipeline under ensurePipelineContains
    cmds0,    \* p.Cmds before the first call (history)
    cmds1,    \* p.Cmds after the first call (history)
    req,      \* the required list s
    calls,    \* number of ensurePipelineContains calls made
    panicked, \* a call ended in a run-time panic
    sets,     \* the Sets: [tree, escape, compiled, mutex] per Set
    maps,     \* the heap of parse.Tree maps the Sets' tree fields refer to
    gor,      \* per goroutine: the call it is in and the position inside it
    hist,     \* what the calls made so far did, `last` being the call that
              \* returned in the last step (history, never read by code)
    heap,     \* the *ListNode objects: address -> Nodes (HeapSpec)
    tree1,    \* the bodies the first inlineTree call left (history)
    runs,     \* number of inlineTree calls that have returned (HeapSpec)
    out       \* the names of the templates Execute has written output for

vars == <<tree, tree0, pc, order, idx, err, deps, todo, cur, scan,
          cmds, cmds0, cmds1, req, calls, panicked, sets, maps, gor, hist,
          heap, tree1, runs, out>>

inlineVars == <<tree, tree0, pc, order, idx, err>>
stepVars == <<deps, todo, cur, scan>>
pipeVars == <<cmds, cmds0, cmds1, req, calls, panicked>>
setVars == <<sets, maps, gor, hist>>
heapVars == <<heap, tree1, runs>>
execVars == <<out>>

(***************************************************************************)
(* Bounds.                                                                 *)
(***************************************************************************)
NumTemplates == 3
NumShapes == 5
MaxCmds == 3
MaxReq == 3

(***************************************************************************)
(* Small helpers.                                                          *)
(***************************************************************************)
Range(s) == {s[i] : i \in 1..Len(s)}

Max(S) == CHOOSE x \in S : \A y \in S : y <= x

Min(S) == CHOOSE x \in S : \A y \in S : x <= y

RECURSIVE Concat(_)
Concat(ss) == IF ss = <<>> THEN <<>> ELSE Head(ss) \o Concat(Tail(ss))

RemoveAt(s, i) == SubSeq(s, 1, i - 1) \o SubSeq(s, i + 1, Len(s))

RECURSIVE Perms(_)
Perms(S) ==
    IF S = {} THEN {<<>>}
    ELSE UNION {{<<x>> \o p : p \in Perms(S \ {x})} : x \in S}

(***************************************************************************)
(* Nodes of the parse tree.  Every node carries the same fields so that    *)
(* nodes of different kinds compare.  A nil *ListNode (the ElseList of a   *)
(* control without {{else}}) is hasElse = FALSE.                           *)
(***************************************************************************)
NoId == <<"", 0>>

TextNode(t, k) ==
    [kind |-> "text", name |-> "", id |-> <<t, k>>,
     list |-> <<>>, elseList |-> <<>>, hasElse |-> FALSE]

BlockNode(b, l) ==
    [kind |-> "block", name |-> b, id |-> NoId,
     list |-> l, elseList |-> <<>>, hasElse |-> FALSE]

FillNode(b, l) ==
    [kind |-> "fill", name |-> b, id |-> NoId,
     list |-> l, elseList |-> <<>>, hasElse |-> FALSE]

\* IfNode, RangeNode and WithNode: kind is "if", "range" or "with".
BranchNode(k, l) ==
    [kind |-> k, name |-> "", id |-> NoId,
     list |-> l, elseList |-> <<>>, hasElse |-> FALSE]

BranchElseNode(k, l, e) ==
    [kind |-> k, name |-> "", id |-> NoId,
     list |-> l, elseList |-> e, hasElse |-> TRUE]

\* A *ListNode stored as an element of another list's Nodes.
ListNode(l) ==
    [kind |-> "list", name |-> "", id |-> NoId,
     list |-> l, elseList |-> <<>>, hasElse |-> FALSE]

IsBranch(n) == n.kind \in {"if", "range", "with"}

(***************************************************************************)
(* The trees the parser can hand to inlineTree.  A body is one of the      *)
(* shapes below; its text runs are labelled with the template that wrote   *)
(* them, so that the origin of every run of the inlined result is visible. *)
(* Shapes 1 and 2 are the base and the overriding child of the TestSlot     *)
(* fixture; the others nest Blocks and Fills where the parser allows them. *)
(***************************************************************************)
TemplateNames == <<"t1", "t2", "t3", "t4", "t5">>

Names == {TemplateNames[i] : i \in 1..NumTemplates}

\* A parent name that no {{define}} of the tree declares.
Absent == "tx"

BlockNames == {"h", "f"}

Shape(t, n) ==
    CASE n = 1 -> <<TextNode(t, 1), BlockNode("h", <<TextNode(t, 2)>>),
                    TextNode(t, 3), BlockNode("f", <<TextNode(t, 4)>>)>>
      [] n = 2 -> <<FillNode("h", <<TextNode(t, 2)>>), TextNode(t, 1),
                    FillNode("f", <<TextNode(t, 4)>>)>>
      [] n = 3 -> <<BranchElseNode("with",
                        <<BlockNode("h", <<TextNode(t, 2)>>)>>,
                        <<TextNode(t, 3), FillNode("f", <<TextNode(t, 4)>>)>>)>>
      [] n = 4 -> <<BlockNode("h", <<TextNode(t, 2),
                                      BlockNode("f", <<TextNode(t, 4)>>)>>)>>
      [] n = 5 -> <<TextNode(t, 1),
                    FillNode("h", <<TextNode(t, 2),
                                     BlockNode("f", <<TextNode(t, 4)>>)>>)>>
      [] n = 6 -> <<BranchNode("range", <<BlockNode("f", <<TextNode(t, 4)>>)>>),
                    FillNode("f", <<TextNode(t, 5)>>)>>
      [] n = 7 -> <<BranchNode("if", <<FillNode("h", <<TextNode(t, 5)>>)>>)>>
      [] n = 8 -> <<TextNode(t, 1)>>
      [] n = 9 -> <<TextNode(t, 1), FillNode("h", <<TextNode(t, 2)>>)>>
      [] n = 10 -> <<FillNode("f", <<TextNode(t, 4)>>)>>
      [] OTHER -> <<>>

\* Template names carry no meaning, so only one assignment of shapes per
\* multiset is explored (shapes non-decreasing along TemplateNames); every
\* parent function over these names is explored.
ShapeChoices ==
    {c \in [1..NumTemplates -> 1..NumShapes] :
        \A i \in 1..(NumTemplates - 1) : c[i] <= c[i + 1]}

ParentChoices == [Names -> Names \cup {"", Absent}]

DefineNode(t, parent, n) == [Parent |-> parent, List |-> Shape(t, n)]

ShapeOf(c, t) == c[CHOOSE i \in 1..NumTemplates : TemplateNames[i] = t]

TreeOf(par, c) == [t \in Names |-> DefineNode(t, par[t], ShapeOf(c, t))]

(***************************************************************************)
(* parentList (inline.go:228-248).                                         *)
(***************************************************************************)
NoErr == [kind |-> "ok", names |-> <<>>]

RECURSIVE parentListFrom(_, _, _)
parentListFrom(tr, name, dps) ==
    IF name \notin DOMAIN tr
    THEN [err |-> [kind |-> "notfound", names |-> <<name>>], deps |-> <<>>]
    ELSE IF name \in Range(dps)
    THEN [err |-> [kind |-> "recursion", names |-> Append(dps, name)], deps |-> <<>>]
    ELSE IF tr[name].Parent = ""
    THEN [err |-> NoErr, deps |-> Append(dps, name)]
    ELSE parentListFrom(tr, tr[name].Parent, Append(dps, name))

\* Mutant: the repeated name is not appended to the chain of the error.
RECURSIVE parentListShortChainFrom(_, _, _)
parentListShortChainFrom(tr, name, dps) ==
    IF name \notin DOMAIN tr
    THEN [err |-> [kind |-> "notfound", names |-> <<name>>], deps |-> <<>>]
    ELSE IF name \in Range(dps)
    THEN [err |-> [kind |-> "recursion", names |-> dps], deps |-> <<>>]
    ELSE IF tr[name].Parent = ""
    THEN [err |-> NoErr, deps |-> Append(dps, name)]
    ELSE parentListShortChainFrom(tr, tr[name].Parent, Append(dps, name))

parentListShortChain(tr, name) == parentListShortChainFrom(tr, name, <<>>)

\* Mutant: a name absent from the tree ends the walk like a root does.
RECURSIVE parentListNoLookupFrom(_, _, _)
parentListNoLookupFrom(tr, name, dps) ==
    IF name \notin DOMAIN tr
    THEN [err |-> NoErr, deps |-> dps]
    ELSE IF name \in Range(dps)
    THEN [err |-> [kind |-> "recursion", names |-> Append(dps, name)], deps |-> <<>>]
    ELSE IF tr[name].Parent = ""
    THEN [err |-> NoErr, deps |-> Append(dps, name)]
    ELSE parentListNoLookupFrom(tr, tr[name].Parent, Append(dps, name))

parentListNoLookup(tr, name) == parentListNoLookupFrom(tr, name, <<>>)

parentList(tr, name) == parentListFrom(tr, name, <<>>)

(***************************************************************************)
(* compilationOrder (inline.go:252-284).  `enum` is the order in which     *)
(* `range tree` yields the names (unspecified in Go).                      *)
(***************************************************************************)
\* Mutant: a removed name is not filtered out of the remaining lists.
dropNameKeep(dps, name) == dps

dropName(dps, name) ==
    [k \in 1..Len(dps) |-> SelectSeq(dps[k], LAMBDA v : v # name)]

\* Mutant: the order is filled from the front, parents first.
orderSlotFront(dps) == NumTemplates - Len(dps) + 1

\* order[len(deps)-1] = name, 0-based, with len(deps) taken before the removal.
orderSlot(dps) == Len(dps)

\* Mutant: a chain is taken whatever is left of it.
chainDoneAlways(chain) == TRUE

\* if len(deps[i]) == 1: all the ancestors of the chain's name are placed.
chainDone(chain) == Len(chain) = 1

RECURSIVE orderLoop(_, _, _)
orderLoop(dps, i, ord) ==
    IF dps = <<>> THEN ord
    ELSE IF i > Len(dps) THEN orderLoop(dps, 1, ord)
    ELSE IF chainDone(dps[i])
    THEN LET name == dps[i][1]
         IN  orderLoop(dropName(RemoveAt(dps, i), name), i,
                       [ord EXCEPT ![orderSlot(dps)] = name])
    ELSE orderLoop(dps, i + 1, ord)

RECURSIVE collectDeps(_, _, _)
collectDeps(tr, enum, dps) ==
    IF enum = <<>> THEN [err |-> NoErr, deps |-> dps]
    ELSE LET p == parentList(tr, Head(enum))
         IN  IF p.err.kind # "ok" THEN [err |-> p.err, deps |-> <<>>]
             ELSE collectDeps(tr, Tail(enum), Append(dps, p.deps))

compilationOrder(tr, enum) ==
    LET c == collectDeps(tr, enum, <<>>)
    IN  IF c.err.kind # "ok" THEN [err |-> c.err, order |-> <<>>]
        ELSE [err |-> NoErr,
              order |-> orderLoop(c.deps, 1, [k \in 1..Len(c.deps) |-> ""])]

(***************************************************************************)
(* applyFillers (inline.go:339-372).  Returns the rewritten list and the   *)
(* names whose `unused` entry was set to false.                            *)
(***************************************************************************)
RECURSIVE applyFillersList(_, _)
RECURSIVE applyFillersNode(_, _)
applyFillersList(nodes, fillers) ==
    [k \in 1..Len(nodes) |->
        LET v == nodes[k]
        IN  IF v.kind = "block"
            THEN IF v.name \in DOMAIN fillers
                 THEN ListNode(fillers[v.name].list) ELSE v
            ELSE IF v.kind = "fill"
            THEN IF v.name \in DOMAIN fillers THEN fillers[v.name] ELSE v
            ELSE applyFillersNode(v, fillers)]

applyFillersNode(n, fillers) ==
    IF IsBranch(n)
    THEN [n EXCEPT !.list = applyFillersList(@, fillers),
                   !.elseList = IF n.hasElse THEN applyFillersList(@, fillers) ELSE @]
    ELSE IF n.kind = "list"
    THEN [n EXCEPT !.list = applyFillersList(@, fillers)]
    ELSE n

RECURSIVE usedFillers(_, _)
usedFillers(nodes, fillers) ==
    UNION {LET v == nodes[k]
           IN  IF v.kind = "block" THEN {}
               ELSE IF v.kind = "fill"
               THEN IF v.name \in DOMAIN fillers THEN {v.name} ELSE {}
               ELSE IF IsBranch(v)
               THEN usedFillers(v.list, fillers)
                    \cup (IF v.hasElse THEN usedFillers(v.elseList, fillers) ELSE {})
               ELSE IF v.kind = "list" THEN usedFillers(v.list, fillers)
               ELSE {} : k \in 1..Len(nodes)}

applyFillers(nodes, fillers) ==
    [list |-> applyFillersList(nodes, fillers), used |-> usedFillers(nodes, fillers)]

(***************************************************************************)
(* cleanupBlock (inline.go:384-417).                                       *)
(***************************************************************************)
RECURSIVE cleanupList(_)
RECURSIVE cleanupNode(_)
cleanupList(nodes) ==
    IF nodes = <<>> THEN <<>>
    ELSE LET v == Head(nodes)
         IN  IF v.kind = "block"
             THEN \* n.Nodes[k] = v.List; continue: the list is looked at again.
                  cleanupList(<<ListNode(v.list)>> \o Tail(nodes))
             ELSE IF v.kind = "fill"
             THEN cleanupList(Tail(nodes))
             ELSE <<cleanupNode(v)>> \o cleanupList(Tail(nodes))

cleanupNode(n) ==
    IF IsBranch(n)
    THEN [n EXCEPT !.list = cleanupList(@),
                   !.elseList = IF n.hasElse THEN cleanupList(@) ELSE @]
    ELSE IF n.kind = "list"
    THEN [n EXCEPT !.list = cleanupList(@)]
    ELSE n

\* Mutant: only the top level of the list is cleaned.
RECURSIVE cleanupBlockShallow(_)
cleanupBlockShallow(nodes) ==
    IF nodes = <<>> THEN <<>>
    ELSE LET v == Head(nodes)
         IN  (IF v.kind = "block" THEN <<ListNode(v.list)>>
              ELSE IF v.kind = "fill" THEN <<>>
              ELSE <<v>>)
             \o cleanupBlockShallow(Tail(nodes))

cleanupBlock(nodes) == cleanupList(nodes)

(***************************************************************************)
(* inlineDefine (inline.go:301-336).                                       *)
(***************************************************************************)
\* fillers[f.Name] = f over define.List.Nodes: the last top-level Fill of a
\* name wins.
collectFillers(nodes) ==
    LET fillIdx == {i \in 1..Len(nodes) : nodes[i].kind = "fill"}
    IN  [b \in {nodes[i].name : i \in fillIdx} |->
            nodes[Max({i \in fillIdx : nodes[i].name = b})]]

\* Mutant: the parent's list is copied but the fillers are not applied.
inlineRoundNoApply(define, parent, fillers, extra) ==
    [Parent |-> parent.Parent,
     List |-> parent.List \o [k \in 1..Len(extra) |-> fillers[extra[k]]]]

\* One pass of inlineDefine on a define with a parent in the tree; `extra`
\* is the order in which `range unused` yields the unused names.
inlineRound(define, parent, fillers, extra) ==
    LET ap == applyFillers(parent.List, fillers)
    IN  [Parent |-> parent.Parent,
         List |-> ap.list \o [k \in 1..Len(extra) |-> fillers[extra[k]]]]

unusedAfter(define, parent) ==
    LET fillers == collectFillers(define.List)
    IN  DOMAIN fillers \ applyFillers(parent.List, fillers).used

RECURSIVE inlineDefine(_, _)
inlineDefine(tr, name) ==
    LET define == tr[name]
    IN  IF define.Parent = ""
        THEN {[err |-> NoErr,
               tree |-> [tr EXCEPT ![name].List = cleanupBlock(@)]]}
        ELSE IF define.Parent \notin DOMAIN tr
        THEN {[err |-> [kind |-> "undefinedparent", names |-> <<define.Parent>>],
               tree |-> tr]}
        ELSE LET parent == tr[define.Parent]
                 fillers == collectFillers(define.List)
             IN  UNION {inlineDefine(
                            [tr EXCEPT ![name] = inlineRound(define, parent, fillers, extra)],
                            name) :
                        extra \in Perms(unusedAfter(define, parent))}

(***************************************************************************)
(* inlineTree (inline.go:287-298), one action per call it makes.           *)
(***************************************************************************)
IdleStep == deps = <<>> /\ todo = {} /\ cur = <<>> /\ scan = 0

IdlePipe ==
    /\ cmds = <<>> /\ cmds0 = <<>> /\ cmds1 = <<>>
    /\ req = <<>> /\ calls = 0 /\ panicked = FALSE

IdleSet == sets = <<>> /\ maps = <<>> /\ gor = <<>> /\ hist = <<>>

IdleHeap == heap = <<>> /\ tree1 = <<>> /\ runs = 0

IdleExec == out = <<>>

Init ==
    /\ \E par \in ParentChoices, c \in ShapeChoices : tree = TreeOf(par, c)
    /\ tree0 = tree
    /\ pc = "start"
    /\ order = <<>>
    /\ idx = 0
    /\ err = NoErr
    /\ IdleStep
    /\ IdlePipe
    /\ IdleSet
    /\ IdleHeap
    /\ IdleExec

\* The orders in which `range tree` can yield the names; every tree of Init
\* has the domain Names.
RangeOrders == Perms(Names)

CompilationOrder ==
    /\ pc = "start"
    /\ \E r \in {compilationOrder(tree, enum) : enum \in RangeOrders} :
             IF r.err.kind # "ok"
             THEN /\ err' = r.err
                  /\ pc' = "done"
                  /\ order' = <<>>
                  /\ idx' = 0
             ELSE /\ err' = err
                  /\ pc' = "inline"
                  /\ order' = r.order
                  /\ idx' = 1
    /\ UNCHANGED <<tree, tree0, stepVars, pipeVars, setVars, heapVars, execVars>>

InlineDefine ==
    /\ pc = "inline"
    /\ idx <= Len(order)
    /\ \E r \in inlineDefine(tree, order[idx]) :
         /\ tree' = r.tree
         /\ IF r.err.kind # "ok"
            THEN /\ err' = r.err
                 /\ pc' = "done"
                 /\ order' = <<>>
                 /\ idx' = 0
            ELSE IF idx = Len(order)
            THEN /\ err' = err
                 /\ pc' = "done"
                 /\ order' = <<>>
                 /\ idx' = 0
            ELSE /\ err' = err
                 /\ pc' = pc
                 /\ order' = order
                 /\ idx' = idx + 1
    /\ UNCHANGED <<tree0, stepVars, pipeVars, setVars, heapVars, execVars>>

Next == CompilationOrder \/ InlineDefine

Spec == Init /\ [][Next]_vars

(***************************************************************************)
(* StepSpec: inlineTree with every iteration of parentList's loop          *)
(* (inline.go:229-246), of compilationOrder's loops (254-282) and every    *)
(* pass of inlineDefine's recursion (301-335) as a step of its own.  A     *)
(* root's body has the fixture's Blocks, a child's body its Fills.         *)
(***************************************************************************)
StepTreeOf(par) ==
    [t \in Names |-> DefineNode(t, par[t], IF par[t] = "" THEN 1 ELSE 2)]

StepInit ==
    /\ \E par \in ParentChoices : tree = StepTreeOf(par)
    /\ tree0 = tree
    /\ pc = "range"
    /\ order = <<>>
    /\ idx = 0
    /\ err = NoErr
    /\ deps = <<>>
    /\ todo = DOMAIN tree
    /\ cur = <<>>
    /\ scan = 0
    /\ IdlePipe
    /\ IdleSet
    /\ IdleHeap
    /\ IdleExec

\* inlineTree returns e: its locals are gone.
ReturnErr(e) ==
    /\ err' = e
    /\ pc' = "done"
    /\ order' = <<>>
    /\ idx' = 0
    /\ deps' = <<>>
    /\ todo' = {}
    /\ cur' = <<>>
    /\ scan' = 0

\* for name, _ := range tree: the next name, or the end of the loop.
StepRange ==
    /\ pc = "range"
    /\ IF todo = {}
       THEN /\ order' = [k \in 1..Len(deps) |-> ""]
            /\ scan' = 1
            /\ pc' = "order"
            /\ UNCHANGED <<todo, cur>>
       ELSE /\ \E name \in todo :
                 /\ todo' = todo \ {name}
                 /\ cur' = [name |-> name, deps |-> <<>>]
            /\ pc' = "parentList"
            /\ UNCHANGED <<order, scan>>
    /\ UNCHANGED <<tree, tree0, idx, err, deps, pipeVars, setVars, heapVars, execVars>>

\* One iteration of parentList's for loop.
StepParentList ==
    /\ pc = "parentList"
    /\ IF cur.name \notin DOMAIN tree
       THEN /\ ReturnErr([kind |-> "notfound", names |-> <<cur.name>>])
       ELSE IF cur.name \in Range(cur.deps)
       THEN /\ ReturnErr([kind |-> "recursion", names |-> Append(cur.deps, cur.name)])
       ELSE IF tree[cur.name].Parent = ""
       THEN /\ deps' = Append(deps, Append(cur.deps, cur.name))
            /\ cur' = <<>>
            /\ pc' = "range"
            /\ UNCHANGED <<err, order, idx, todo, scan>>
       ELSE /\ cur' = [name |-> tree[cur.name].Parent,
                       deps |-> Append(cur.deps, cur.name)]
            /\ UNCHANGED <<err, pc, order, idx, deps, todo, scan>>
    /\ UNCHANGED <<tree, tree0, pipeVars, setVars, heapVars, execVars>>

\* One test of `len(deps) > 0` or `i < len(deps)` and the body it guards.
StepOrder ==
    /\ pc = "order"
    /\ IF deps = <<>>
       THEN /\ pc' = "inline"
            /\ idx' = 1
            /\ scan' = 0
            /\ UNCHANGED <<deps, order>>
       ELSE IF scan > Len(deps)
       THEN /\ scan' = 1
            /\ UNCHANGED <<pc, idx, deps, order>>
       ELSE IF chainDone(deps[scan])
       THEN /\ order' = [order EXCEPT ![orderSlot(deps)] = deps[scan][1]]
            /\ deps' = dropName(RemoveAt(deps, scan), deps[scan][1])
            /\ UNCHANGED <<pc, idx, scan>>
       ELSE /\ scan' = scan + 1
            /\ UNCHANGED <<pc, idx, deps, order>>
    /\ UNCHANGED <<tree, tree0, err, todo, cur, pipeVars, setVars, heapVars, execVars>>

\* One pass of inlineDefine(tree, order[idx]): the cleanup of a parentless
\* define and the return to inlineTree's loop, or one re-parenting.
StepInline ==
    /\ pc = "inline"
    /\ idx <= Len(order)
    /\ LET name == order[idx]
           define == tree[name]
       IN  IF define.Parent = ""
           THEN /\ tree' = [tree EXCEPT ![name].List = cleanupBlock(@)]
                /\ IF idx = Len(order)
                   THEN /\ pc' = "done"
                        /\ order' = <<>>
                        /\ idx' = 0
                   ELSE /\ idx' = idx + 1
                        /\ UNCHANGED <<pc, order>>
                /\ UNCHANGED <<err, deps, todo, cur, scan>>
           ELSE IF define.Parent \notin DOMAIN tree
           THEN /\ ReturnErr([kind |-> "undefinedparent", names |-> <<define.Parent>>])
                /\ UNCHANGED tree
           ELSE /\ \E extra \in Perms(unusedAfter(define, tree[define.Parent])) :
                     tree' = [tree EXCEPT ![name] =
                                 inlineRound(define, tree[define.Parent],
                                             collectFillers(define.List), extra)]
                /\ UNCHANGED <<pc, order, idx, err, deps, todo, cur, scan>>
    /\ UNCHANGED <<tree0, pipeVars, setVars, heapVars, execVars>>

StepNext == StepRange \/ StepParentList \/ StepOrder \/ StepInline

StepSpec == StepInit /\ [][StepNext]_vars

\* inlineTree runs on one goroutine and never blocks: a step that can be
\* taken is taken.
FairStepSpec == StepSpec /\ WF_vars(StepNext)

(***************************************************************************)
(* escape/pipeline.go.  A command is known by its first argument: an       *)
(* identifier (a function name) or something else (a field, a variable, a  *)
(* literal).                                                               *)
(***************************************************************************)
newIdentCmd(identifier) == [ident |-> TRUE, name |-> identifier]

FieldCmd(field) == [ident |-> FALSE, name |-> field]

redundantFuncs(a, b) ==
    \/ /\ a = "html_template_commentescaper"
       /\ b \in {"html_template_attrescaper", "html_template_nospaceescaper",
                 "html_template_htmlescaper"}
    \/ /\ a \in {"html_template_cssescaper", "html_template_jsregexpescaper",
                 "html_template_jsstrescaper"}
       /\ b = "html_template_attrescaper"
    \/ /\ a = "html_template_urlescaper"
       /\ b = "html_template_urlnormalizer"

equivEscapers(a) ==
    IF a \in {"html_template_attrescaper", "html_template_htmlescaper",
              "html_template_nospaceescaper", "html_template_rcdataescaper"}
    THEN "html"
    ELSE IF a \in {"html_template_urlescaper", "html_template_urlnormalizer"}
    THEN "urlquery"
    ELSE ""

escFnsEq(a, b) ==
    LET a2 == IF equivEscapers(a) # "" THEN equivEscapers(a) ELSE a
        b2 == IF equivEscapers(b) # "" THEN equivEscapers(b) ELSE b
    IN  a2 = b2

\* The first i (from 1) with eq(s, strs[i]), 0 when there is none.
indexOfStr(x, strs) ==
    LET found == {i \in 1..Len(strs) : escFnsEq(x, strs[i])}
    IN  IF found = {} THEN 0 ELSE Min(found)

\* Mutant: nothing is redundant.
appendCmdAlways(cls, cmd) == Append(cls, cmd)

\* cmd is an identifier command wherever appendCmd is called: line 83 has
\* asserted it, and newIdentCmd builds one.
appendCmd(cls, cmd) ==
    IF Len(cls) # 0 /\ cls[Len(cls)].ident /\ redundantFuncs(cls[Len(cls)].name, cmd.name)
    THEN cls
    ELSE Append(cls, cmd)

\* Mutant: the noescape sentinel is not looked for.
RECURSIVE scanIdentsNoSentinel(_, _, _)
scanIdentsNoSentinel(p, i, idents) ==
    IF i = 0 THEN [exempt |-> FALSE, idents |-> idents]
    ELSE IF p[i].ident THEN scanIdentsNoSentinel(p, i - 1, idents)
    ELSE scanIdentsNoSentinel(p, i - 1, SubSeq(p, i + 1, Len(p)))

\* Lines 57-68, from i down to 1: there is no break, so every command is
\* visited and idents ends as what follows the leftmost command that does
\* not start with an identifier.
RECURSIVE scanIdents(_, _, _)
scanIdents(p, i, idents) ==
    IF i = 0 THEN [exempt |-> FALSE, idents |-> idents]
    ELSE IF p[i].ident
    THEN IF p[i].name = "noescape"
         THEN [exempt |-> TRUE, idents |-> idents]
         ELSE scanIdents(p, i - 1, idents)
    ELSE scanIdents(p, i - 1, SubSeq(p, i + 1, Len(p)))

\* Lines 69-77, from the k-th of idents: "return", "panic" (the type
\* assertion of line 71 on a command that is no identifier) or "go on".
RECURSIVE dupsLoop(_, _, _, _)
dupsLoop(s, idents, k, dups) ==
    IF k > Len(idents) THEN "go on"
    ELSE IF ~idents[k].ident THEN "panic"
    ELSE IF escFnsEq(s[dups + 1], idents[k].name)
    THEN IF dups + 1 = Len(s) THEN "return"
         ELSE dupsLoop(s, idents, k + 1, dups + 1)
    ELSE dupsLoop(s, idents, k + 1, dups)

RECURSIVE appendAll(_, _)
appendAll(cls, names) ==
    IF names = <<>> THEN cls
    ELSE appendAll(appendCmd(cls, newIdentCmd(Head(names))), Tail(names))

\* Lines 81-95, from the k-th of idents.
RECURSIVE mergeLoop(_, _, _, _)
mergeLoop(idents, k, s, newCmds) ==
    IF k > Len(idents) THEN appendAll(newCmds, s)
    ELSE LET id == idents[k]
             i == indexOfStr(id.name, s)
         IN  IF i # 0
             THEN mergeLoop(idents, k + 1, SubSeq(s, i + 1, Len(s)),
                            appendCmd(appendAll(newCmds, SubSeq(s, 1, i - 1)), id))
             ELSE mergeLoop(idents, k + 1, s, appendCmd(newCmds, id))

\* The call's outcome: whether it panicked, and p.Cmds afterwards.
ensurePipelineContains(p, s) ==
    IF Len(s) = 0 THEN [panic |-> FALSE, cmds |-> p]
    ELSE LET sc == scanIdents(p, Len(p), p)
             d == dupsLoop(s, sc.idents, 1, 0)
         IN  IF sc.exempt \/ d = "return" THEN [panic |-> FALSE, cmds |-> p]
             ELSE IF d = "panic" THEN [panic |-> TRUE, cmds |-> p]
             ELSE [panic |-> FALSE,
                   cmds |-> mergeLoop(sc.idents, 1, s,
                                      SubSeq(p, 1, Len(p) - Len(sc.idents)))]

(***************************************************************************)
(* PipeSpec: ensurePipelineContains applied to a pipeline, and once more   *)
(* to what it left.                                                        *)
(***************************************************************************)
ReqNames ==
    {"html", "urlquery", "html_template_attrescaper", "html_template_cssescaper"}

CmdChoices ==
    {FieldCmd(".X")} \cup {newIdentCmd(f) : f \in ReqNames \cup {"print", "noescape"}}

SeqsUpTo(S, n) == UNION {[1..k -> S] : k \in 0..n}

PipeInit ==
    /\ cmds \in SeqsUpTo(CmdChoices, MaxCmds) \ {<<>>}
    /\ cmds0 = cmds
    /\ cmds1 = <<>>
    /\ req \in SeqsUpTo(ReqNames, MaxReq)
    /\ calls = 0
    /\ panicked = FALSE
    /\ tree = <<>>
    /\ tree0 = <<>>
    /\ pc = "pipe"
    /\ order = <<>>
    /\ idx = 0
    /\ err = NoErr
    /\ IdleStep
    /\ IdleSet
    /\ IdleHeap
    /\ IdleExec

EnsurePipelineContains ==
    /\ pc = "pipe"
    /\ calls < 2
    /\ ~panicked
    /\ LET r == ensurePipelineContains(cmds, req)
       IN  /\ cmds' = r.cmds
           /\ panicked' = r.panic
           /\ cmds1' = IF calls = 0 THEN r.cmds ELSE cmds1
    /\ calls' = calls + 1
    /\ UNCHANGED <<cmds0, req, inlineVars, stepVars, setVars, heapVars, execVars>>

PipeNext == EnsurePipelineContains

PipeSpec == PipeInit /\ [][PipeNext]_vars

(***************************************************************************)
(* What the claims speak of, stated on the tree as parsed (tree0) and      *)
(* independently of the operators above.                                   *)
(***************************************************************************)
Done == pc = "done"

Succeeded == Done /\ err.kind = "ok"

\* The names met by following parent pointers from t, at most k times.
RECURSIVE Walk(_, _, _)
Walk(tr, t, k) ==
    IF k = 0 \/ t \notin DOMAIN tr THEN <<t>>
    ELSE IF tr[t].Parent = "" THEN <<t>>
    ELSE <<t>> \o Walk(tr, tr[t].Parent, k - 1)

Ancestry(t) == Walk(tree0, t, NumTemplates)

Revisits(t) ==
    LET w == Ancestry(t)
    IN  \E i, j \in 1..Len(w) : i < j /\ w[i] = w[j]

ReachesAbsent(t) ==
    LET w == Ancestry(t)
    IN  w[Len(w)] \notin DOMAIN tree0

HasCycle == \E t \in DOMAIN tree0 : Revisits(t)

HasAbsent == \E t \in DOMAIN tree0 : ReachesAbsent(t)

WellFormed == ~HasCycle /\ ~HasAbsent

\* names = n1 .. nk r: n1..nk distinct, linked by parent pointers, and r, the
\* parent of nk, is one of n1..nk.
IsRecursionChain(names) ==
    /\ Len(names) >= 2
    /\ \A i \in 1..Len(names) : names[i] \in DOMAIN tree0
    /\ \A i \in 1..(Len(names) - 1) : tree0[names[i]].Parent = names[i + 1]
    /\ \A i, j \in 1..(Len(names) - 1) : i # j => names[i] # names[j]
    /\ \E i \in 1..(Len(names) - 1) : names[i] = names[Len(names)]

IsNotFound(names) ==
    /\ Len(names) = 1
    /\ names[1] \notin DOMAIN tree0
    /\ \E t \in DOMAIN tree0 : LET w == Ancestry(t) IN w[Len(w)] = names[1]

Pos(seq, x) == Min({i \in 1..Len(seq) : seq[i] = x} \cup {Len(seq) + 1})

\* The top-level Fill named b of a body (the last one, should there be more).
TopFillNames(nodes) == {nodes[i].name : i \in {j \in 1..Len(nodes) : nodes[j].kind = "fill"}}

TopFill(nodes, b) ==
    nodes[Max({i \in 1..Len(nodes) : nodes[i].kind = "fill" /\ nodes[i].name = b})]

\* Every Block replaced by its default content, every Fill dropped.
RECURSIVE Defaulted(_)
Defaulted(nodes) ==
    IF nodes = <<>> THEN <<>>
    ELSE LET v == Head(nodes)
         IN  (IF v.kind = "fill" THEN <<>>
              ELSE IF v.kind = "block" THEN <<ListNode(Defaulted(v.list))>>
              ELSE <<[v EXCEPT !.list = Defaulted(@), !.elseList = Defaulted(@)]>>)
             \o Defaulted(Tail(nodes))

\* Every Block whose name F maps, at any depth, replaced by the content of
\* F's Fill; the content itself is left as written.
RECURSIVE SubstAll(_, _)
SubstAll(nodes, F) ==
    [k \in 1..Len(nodes) |->
        LET v == nodes[k]
        IN  IF v.kind = "block" /\ v.name \in DOMAIN F
            THEN ListNode(Defaulted(F[v.name].list))
            ELSE IF v.kind = "fill" THEN v
            ELSE [v EXCEPT !.list = SubstAll(@, F), !.elseList = SubstAll(@, F)]]

\* A body as it renders: nested lists spliced in place.
RECURSIVE Flat(_)
Flat(nodes) ==
    IF nodes = <<>> THEN <<>>
    ELSE LET v == Head(nodes)
         IN  (IF v.kind = "list" THEN Flat(v.list)
              ELSE <<[v EXCEPT !.list = Flat(@), !.elseList = Flat(@)]>>)
             \o Flat(Tail(nodes))

\* A rendered body with the inside of its If/Range/With nodes blanked.
TopLevel(flat) ==
    [k \in 1..Len(flat) |->
        IF IsBranch(flat[k]) THEN BranchNode(flat[k].kind, <<>>) ELSE flat[k]]

RECURSIVE TextIds(_)
TextIds(nodes) ==
    UNION {(IF nodes[k].kind = "text" THEN {nodes[k].id} ELSE {})
           \cup TextIds(nodes[k].list) \cup TextIds(nodes[k].elseList) :
           k \in 1..Len(nodes)}

RECURSIVE HasBlockOrFill(_)
HasBlockOrFill(nodes) ==
    \E k \in 1..Len(nodes) :
        \/ nodes[k].kind \in {"block", "fill"}
        \/ HasBlockOrFill(nodes[k].list)
        \/ HasBlockOrFill(nodes[k].elseList)

\* The Fill that the nearest template of chain[1..Len-1] declares for b.
NearestFills(chain) ==
    LET decl(b) == {i \in 1..(Len(chain) - 1) : b \in TopFillNames(tree0[chain[i]].List)}
    IN  [b \in {c \in BlockNames : decl(c) # {}} |->
            TopFill(tree0[chain[Min(decl(b))]].List, b)]

ExpectedBody(t) ==
    LET chain == Ancestry(t)
    IN  Flat(Defaulted(SubstAll(tree0[chain[Len(chain)]].List, NearestFills(chain))))

(***************************************************************************)
(* C1.  For every template t0 with ancestors t1..tn (tn the root), after a *)
(* successful inlineTree t0's body is tn's body with every Block named b   *)
(* resolved to the content of the top-level Fill named b of the nearest of *)
(* t0..t(n-1) that declares one, and to its default content otherwise.     *)
(***************************************************************************)
C1_NearestFillWins ==
    Succeeded =>
        \A t \in DOMAIN tree0 :
            tree0[t].Parent # "" => Flat(tree[t].List) = ExpectedBody(t)

(***************************************************************************)
(* C2.  Single-level inheritance: for T whose parent B is a root, T's body *)
(* after inlineTree is B's body with every top-level Block named b         *)
(* replaced by the content of T's top-level Fill named b when T declares   *)
(* one and by the Block's default content otherwise, and nothing of T's    *)
(* own non-Fill top-level content appears in it.  (What becomes of Blocks  *)
(* below the top level is not part of this statement, so the inside of     *)
(* If/Range/With nodes is not compared.)                                   *)
(***************************************************************************)
IsChildOfRoot(T) ==
    /\ tree0[T].Parent \in DOMAIN tree0
    /\ tree0[tree0[T].Parent].Parent = ""

NonFill(nodes) == SelectSeq(nodes, LAMBDA v : v.kind # "fill")

ExpectedTopLevel(T) ==
    LET tl == tree0[T].List
        bl == NonFill(tree0[tree0[T].Parent].List)
        seg(v) == IF v.kind = "block"
                  THEN IF v.name \in TopFillNames(tl)
                       THEN Flat(Defaulted(TopFill(tl, v.name).list))
                       ELSE Flat(Defaulted(v.list))
                  ELSE Flat(<<v>>)
    IN  TopLevel(Concat([k \in 1..Len(bl) |-> seg(bl[k])]))

C2_SingleLevel ==
    Succeeded =>
        \A T \in DOMAIN tree0 :
            IsChildOfRoot(T) =>
                /\ TopLevel(Flat(tree[T].List)) = ExpectedTopLevel(T)
                /\ TextIds(tree[T].List) \cap TextIds(NonFill(tree0[T].List)) = {}

\* A child that fills one top-level Block of its root parent, leaves another
\* to its default and has top-level content of its own.
C2_Witness ==
    /\ Succeeded
    /\ \E T \in DOMAIN tree0 :
         /\ IsChildOfRoot(T)
         /\ LET bl == tree0[tree0[T].Parent].List
                tl == tree0[T].List
            IN  /\ \E k \in 1..Len(bl) :
                     bl[k].kind = "block" /\ bl[k].name \in TopFillNames(tl)
                /\ \E k \in 1..Len(bl) :
                     bl[k].kind = "block" /\ bl[k].name \notin TopFillNames(tl)
                /\ \E k \in 1..Len(tl) : tl[k].kind = "text"
                /\ TopLevel(Flat(tree[T].List)) = ExpectedTopLevel(T)

(***************************************************************************)
(* C3.  As claimed: if following parent pointers from any template         *)
(* revisits a name, inlineTree returns the impossible-recursion error, its *)
(* chain lists the names visited in order and ends with the repeated name, *)
(* and no template is inlined.                                             *)
(***************************************************************************)
C3_Original ==
    (Done /\ HasCycle) =>
        /\ err.kind = "recursion"
        /\ IsRecursionChain(err.names)
        /\ tree = tree0

(***************************************************************************)
(* C3, amended.  If following parent pointers from any template revisits a *)
(* name, inlineTree returns an error and no template is inlined; the error *)
(* is the impossible-recursion error (chain as above) unless `range tree`  *)
(* first yields a template whose ancestor chain reaches an absent name, in *)
(* which case it is the template-not-found error for that name.            *)
(***************************************************************************)
C3_CycleIsAnError ==
    (Done /\ HasCycle) =>
        /\ tree = tree0
        /\ \/ err.kind = "recursion" /\ IsRecursionChain(err.names)
           \/ err.kind = "notfound" /\ HasAbsent /\ IsNotFound(err.names)
        /\ ~HasAbsent => err.kind = "recursion"

\* The fixture's cycle of three: the chain names all three and the first again.
C3_Witness ==
    /\ Done
    /\ HasCycle
    /\ err.kind = "recursion"
    /\ Len(err.names) = 4
    /\ err.names[1] = err.names[4]
    /\ tree = tree0

(***************************************************************************)
(* C4.  As claimed: if a name on the ancestor chain of any template is     *)
(* absent from the tree, inlineTree fails with the template-not-found      *)
(* error naming it, raised during compilationOrder, so that inlineDefine's *)
(* undefined-parent error is never reached.                                *)
(***************************************************************************)
C4_Original ==
    /\ err.kind # "undefinedparent"
    /\ (Done /\ HasAbsent) =>
          /\ err.kind = "notfound"
          /\ IsNotFound(err.names)
          /\ tree = tree0

(***************************************************************************)
(* C4, amended.  If a name on the ancestor chain of any template is absent *)
(* from the tree, inlineTree fails during compilationOrder, before any     *)
(* inlineDefine call: with the template-not-found error naming the absent  *)
(* template, unless `range tree` first yields a template whose chain       *)
(* revisits a name, in which case with the impossible-recursion error.     *)
(* inlineDefine's undefined-parent error is never returned.                *)
(***************************************************************************)
C4_AbsentIsAnError ==
    /\ err.kind # "undefinedparent"
    /\ (Done /\ HasAbsent) =>
          /\ tree = tree0
          /\ \/ err.kind = "notfound" /\ IsNotFound(err.names)
             \/ err.kind = "recursion" /\ HasCycle /\ IsRecursionChain(err.names)
          /\ ~HasCycle => err.kind = "notfound"

\* A grandparent is absent: the error names it, nothing was inlined.
C4_Witness ==
    /\ Done
    /\ err.kind = "notfound"
    /\ err.names = <<Absent>>
    /\ \E t \in DOMAIN tree0 :
         /\ tree0[t].Parent \in DOMAIN tree0
         /\ tree0[tree0[t].Parent].Parent = Absent
    /\ tree = tree0

(***************************************************************************)
(* C6.  After inlineTree returns without error every Define has an empty   *)
(* Parent and no body holds a Block or a Fill at any depth.                *)
(***************************************************************************)
C6_Flattened ==
    Succeeded =>
        \A t \in DOMAIN tree :
            /\ tree[t].Parent = ""
            /\ ~HasBlockOrFill(tree[t].List)

\* A parent with a Block and a Fill inside a control's branches and a child
\* that fills it, and a root whose Block default holds another Block.
C6_Witness ==
    /\ Succeeded
    /\ \E t, u \in DOMAIN tree0 :
         /\ tree0[u].Parent = t
         /\ TopFillNames(tree0[u].List) # {}
         /\ \E k \in 1..Len(tree0[t].List) :
              /\ IsBranch(tree0[t].List[k])
              /\ HasBlockOrFill(tree0[t].List[k].list)
    /\ \E t \in DOMAIN tree0 :
         \E k \in 1..Len(tree0[t].List) :
            tree0[t].List[k].kind = "block" /\ HasBlockOrFill(tree0[t].List[k].list)
    /\ \A t \in DOMAIN tree : tree[t].Parent = "" /\ ~HasBlockOrFill(tree[t].List)

(***************************************************************************)
(* C7.  As claimed: in the order returned by compilationOrder every        *)
(* template that has a parent appears after its parent.                    *)
(***************************************************************************)
C7_Original ==
    pc = "inline" =>
        \A t \in DOMAIN tree0 :
            tree0[t].Parent # "" => Pos(order, tree0[t].Parent) < Pos(order, t)

(***************************************************************************)
(* C7, amended.  In the order returned by compilationOrder every template  *)
(* that has a parent appears before its parent, so a template is inlined   *)
(* while its parent's body is still as parsed; the parent is inlined only  *)
(* after all of its children.                                              *)
(***************************************************************************)
C7_ChildBeforeParent ==
    pc = "inline" =>
        /\ Range(order) = DOMAIN tree0
        /\ \A t \in DOMAIN tree0 :
             tree0[t].Parent # "" =>
                /\ Pos(order, t) < Pos(order, tree0[t].Parent)
                /\ idx <= Pos(order, t) => tree[tree0[t].Parent] = tree0[tree0[t].Parent]

\* A chain of three about to be inlined, the leaf first.
C7_Witness ==
    /\ pc = "inline"
    /\ idx = 1
    /\ \E t \in DOMAIN tree0 :
         /\ tree0[t].Parent \in DOMAIN tree0
         /\ tree0[tree0[t].Parent].Parent \in DOMAIN tree0
         /\ order[1] = t

(***************************************************************************)
(* C5.  inlineTree terminates on every tree: with an error when the tree   *)
(* has a parent cycle or a missing parent, and otherwise after the removal *)
(* loop of compilationOrder has emptied its work list and every define has *)
(* been re-inlined up to an empty parent.                                  *)
(***************************************************************************)
C5_Terminates ==
    <>(/\ Done
       /\ deps = <<>>
       /\ IF WellFormed
          THEN err.kind = "ok" /\ \A t \in DOMAIN tree : tree[t].Parent = ""
          ELSE err.kind \in {"recursion", "notfound"})

\* A chain of three has been inlined: its leaf went through two re-inlining
\* passes before its parent was empty.
C5_Witness ==
    /\ Succeeded
    /\ deps = <<>>
    /\ \E t \in DOMAIN tree0 :
         /\ Len(Ancestry(t)) = 3
         /\ ~Revisits(t)
         /\ tree[t].Parent = ""

(***************************************************************************)
(* What the pipeline claims speak of.                                      *)
(***************************************************************************)
\* The maximal suffix of commands that start with an identifier.
RECURSIVE TrailingIdents(_)
TrailingIdents(p) ==
    IF p = <<>> \/ ~p[Len(p)].ident THEN <<>>
    ELSE Append(TrailingIdents(SubSeq(p, 1, Len(p) - 1)), p[Len(p)])

\* The names of s occur in order, each as itself or as an equivalent name,
\* among the commands of T after the first `last` of them.
RECURSIVE OccursInOrder(_, _, _)
OccursInOrder(s, T, last) ==
    IF s = <<>> THEN TRUE
    ELSE \E j \in (last + 1)..Len(T) :
            escFnsEq(s[1], T[j].name) /\ OccursInOrder(Tail(s), T, j)

EscaperNames ==
    ReqNames \cup {"html_template_htmlescaper", "html_template_nospaceescaper",
                   "html_template_rcdataescaper", "html_template_urlescaper",
                   "html_template_urlnormalizer"}

\* n, or a name equivalent to n, is redundant after command c.
RedundantAfter(c, n) ==
    \E m \in EscaperNames : escFnsEq(n, m) /\ redundantFuncs(c.name, m)

\* As OccursInOrder, but a name may also be missing where it would follow a
\* command after which it is redundant.
RECURSIVE OccursOrSkipped(_, _, _)
OccursOrSkipped(s, T, last) ==
    IF s = <<>> THEN TRUE
    ELSE \/ \E j \in (last + 1)..Len(T) :
              escFnsEq(s[1], T[j].name) /\ OccursOrSkipped(Tail(s), T, j)
         \/ \E j \in last..Len(T) :
              j >= 1 /\ RedundantAfter(T[j], s[1]) /\ OccursOrSkipped(Tail(s), T, j)

Exempt(p) == \E i \in 1..Len(p) : p[i].ident /\ p[i].name = "noescape"

(***************************************************************************)
(* C8.  ensurePipelineContains is idempotent: for every pipeline and every *)
(* required list, a second application to the result of the first returns  *)
(* and leaves the command list as the first left it.                       *)
(***************************************************************************)
C8_Idempotent == calls = 2 => (~panicked /\ cmds = cmds1)

(***************************************************************************)
(* C9.  After ensurePipelineContains(p, s) has returned on a pipeline with *)
(* no noescape command, the names of s occur in order among p's trailing   *)
(* identifier commands, each as the same or an equivalent name, except for *)
(* names that are redundant after the command that precedes them (read     *)
(* widely: the name or an equivalent of it is redundant there).            *)
(***************************************************************************)
C9_RequiredOccur ==
    (calls = 1 /\ ~panicked /\ ~Exempt(cmds0)) =>
        OccursOrSkipped(req, TrailingIdents(cmds), 0)

RECURSIVE IsSubseq(_, _)
IsSubseq(a, b) ==
    IF a = <<>> THEN TRUE
    ELSE IF b = <<>> THEN FALSE
    ELSE IF Head(a) = Head(b) THEN IsSubseq(Tail(a), Tail(b))
    ELSE IsSubseq(a, Tail(b))

(***************************************************************************)
(* C11.  ensurePipelineContains does not interfere with the commands that  *)
(* are already there: when it returns, the command sequence it was given   *)
(* is a subsequence of the one it leaves (nothing removed or reordered).   *)
(***************************************************************************)
C11_NoInterference ==
    (calls = 1 /\ ~panicked) => IsSubseq(cmds0, cmds)

(***************************************************************************)
(* C12.  If an identifier command named noescape is in the pipeline's      *)
(* trailing identifier run, ensurePipelineContains returns and leaves the  *)
(* pipeline unchanged, whatever the non-empty required list.               *)
(***************************************************************************)
C12_NoescapeExempts ==
    (calls = 1 /\ req # <<>> /\ Exempt(TrailingIdents(cmds0))) =>
        (~panicked /\ cmds = cmds0)

\* A pipeline ending in noescape that lacks a required escaper, after the call.
C12_Witness ==
    /\ calls = 1
    /\ req # <<>>
    /\ Exempt(TrailingIdents(cmds0))
    /\ ~OccursInOrder(req, TrailingIdents(cmds0), 0)
    /\ ~panicked
    /\ cmds = cmds0

(***************************************************************************)
(* Contextual escaping.  escape.EscapeTree, the context scanner and the    *)
(* propagation driver are called by Set.Compile (inline.go:1191) and       *)
(* exercised by the tests (part_004, escape_test.go); escape.go and        *)
(* context.go are not among the sources translated here, so they are       *)
(* written after sections 4.1 and 4.3 of the specification and after the   *)
(* outcomes the tests expect.  The pipeline rewriting they perform is the  *)
(* one of escape/pipeline.go above.                                        *)
(***************************************************************************)
\* A text node whose content is the HTML fragment s.
HtmlText(s) ==
    [kind |-> "text", name |-> "", id |-> <<s, 0>>,
     list |-> <<>>, elseList |-> <<>>, hasElse |-> FALSE]

\* An ActionNode, {{ pipeline }}.
ActionNode(p) ==
    [kind |-> "action", name |-> "", id |-> NoId,
     list |-> <<>>, elseList |-> <<>>, hasElse |-> FALSE, cmds |-> p]

NoError == <<>>

\* A context: the grammar state, the part of a URL the position is in, and
\* the error that made it the error context.
Ctx(st) == [state |-> st, urlPart |-> "none", err |-> NoError]

UrlCtx(part) == [state |-> "url", urlPart |-> part, err |-> NoError]

ErrCtx(e) == [state |-> "error", urlPart |-> "none", err |-> e]

\* scan(context, text) of section 4.1 on the fragments the templates of
\* this model are written with; the states are plain text ("text"), inside
\* a tag ("tag"), inside an attribute name ("attrName"), inside a
\* single-quoted attribute value ("attr") and inside a single-quoted URL
\* attribute value ("url").  escape_test.go:33-76 gives the contexts after
\* `<a`, `<a>`, `<a href` and `<a href ='`; part_004:895-897 gives the error
\* of `<a` inside a tag, part_004:907-908 the script element ("js").
escapeText(c, s) ==
    IF c.state = "error" THEN c
    ELSE IF c.state = "text"
    THEN IF s = "<a" THEN Ctx("tag")
         ELSE IF s = "<script>" THEN Ctx("js")
         ELSE c
    ELSE IF c.state = "js"
    THEN IF s = "</script>" THEN Ctx("text") ELSE c
    ELSE IF c.state \in {"tag", "attrName"}
    THEN CASE s \in {"<a", "<a>", "'"} -> ErrCtx(<<"badname">>)
           [] s = ">" -> Ctx("text")
           [] s = " x='" -> Ctx("attr")
           [] s = " href='" -> UrlCtx("none")
           [] OTHER -> Ctx("attrName")
    ELSE IF s \in {"'", " x='", " href='"} THEN Ctx("tag")
    ELSE IF c.state = "url"
    THEN UrlCtx(IF s = "?q" THEN "queryOrFrag"
                ELSE IF c.urlPart = "none" THEN "preQuery"
                ELSE c.urlPart)
    ELSE c

\* The escapers an action needs in context c (section 4.3, Action nodes).
requiredEscapers(c) ==
    CASE c.state = "text" -> <<"html_template_htmlescaper">>
      [] c.state \in {"tag", "attrName"} -> <<"html_template_htmlnamefilter">>
      [] c.state = "attr" -> <<"html_template_attrescaper">>
      [] c.state = "js" -> <<"html_template_jsvalescaper">>
      [] c.state = "url" /\ c.urlPart = "none" ->
            <<"html_template_urlfilter", "html_template_urlnormalizer",
              "html_template_attrescaper">>
      [] c.state = "url" /\ c.urlPart = "preQuery" ->
            <<"html_template_urlnormalizer", "html_template_attrescaper">>
      [] c.state = "url" /\ c.urlPart = "queryOrFrag" ->
            <<"html_template_urlescaper", "html_template_attrescaper">>
      [] OTHER -> <<>>

\* An action inside a tag stands for an attribute name (part_004:598-606).
nudge(c) == IF c.state = "tag" THEN Ctx("attrName") ELSE c

\* Mutant: contexts that do not join give the first of them.
joinNoError(a, b, nodeName) ==
    IF a.state = "error" THEN a
    ELSE IF b.state = "error" THEN b
    ELSE IF [a EXCEPT !.urlPart = b.urlPart] = b /\ a # b
    THEN [a EXCEPT !.urlPart = "unknown"]
    ELSE nudge(a)

\* The context after the two branches of a control: contexts that differ
\* only in the part of the URL join to the ambiguous part (urlBranch,
\* part_004:177-185; section 4.3, Ambiguous context), a tag joins with an
\* attribute name (part_004:593-596), anything else is the branch error
\* that names the construct (part_004:869-893).
join(a, b, nodeName) ==
    IF a.state = "error" THEN a
    ELSE IF b.state = "error" THEN b
    ELSE IF a = b THEN a
    ELSE IF [a EXCEPT !.urlPart = b.urlPart] = b
    THEN [a EXCEPT !.urlPart = "unknown"]
    ELSE IF nudge(a) = nudge(b) THEN nudge(a)
    ELSE ErrCtx(<<"branches", nodeName>>)

\* An action: the required escapers are put into its pipeline; the context
\* is left as it is, but for a tag, where the action is an attribute name.
escapeAction(c, n) ==
    IF c.state = "error" THEN [ctx |-> c, node |-> n, panic |-> FALSE]
    ELSE IF c.state = "url" /\ c.urlPart = "unknown"
    THEN [ctx |-> ErrCtx(<<"ambiguous">>), node |-> n, panic |-> FALSE]
    ELSE LET r == ensurePipelineContains(n.cmds, requiredEscapers(c))
         IN  [ctx |-> nudge(c), node |-> [n EXCEPT !.cmds = r.cmds],
              panic |-> r.panic]

\* The driver of section 4.3 over a list of nodes: the context after it,
\* the list with its pipelines rewritten, and whether the rewriting of a
\* pipeline panicked.  Edits are made in place, so what was rewritten
\* before an error stays rewritten (section 9).
RECURSIVE escapeList(_, _)
RECURSIVE escapeNode(_, _)
RECURSIVE escapeBranch(_, _)
escapeList(c, nodes) ==
    IF nodes = <<>> THEN [ctx |-> c, list |-> <<>>, panic |-> FALSE]
    ELSE LET h == escapeNode(c, Head(nodes))
         IN  IF h.panic
             THEN [ctx |-> h.ctx, list |-> <<h.node>> \o Tail(nodes), panic |-> TRUE]
             ELSE LET t == escapeList(h.ctx, Tail(nodes))
                  IN  [ctx |-> t.ctx, list |-> <<h.node>> \o t.list, panic |-> t.panic]

escapeNode(c, n) ==
    IF n.kind = "text"
    THEN [ctx |-> escapeText(c, n.id[1]), node |-> n, panic |-> FALSE]
    ELSE IF n.kind = "action" THEN escapeAction(c, n)
    ELSE IF IsBranch(n) THEN escapeBranch(c, n)
    ELSE IF n.kind = "list"
    THEN LET r == escapeList(c, n.list)
         IN  [ctx |-> r.ctx, node |-> [n EXCEPT !.list = r.list], panic |-> r.panic]
    ELSE \* a Block or a Fill: none is left after inlining
         [ctx |-> c, node |-> n, panic |-> TRUE]

\* Mutant: the body is not scanned a second time.
rangeReentryNone(c0, list) == c0

\* The exit context of a {{range}} body: the body is scanned from the entry
\* context and once more from where that scan ended; the second scan's
\* edits are dropped (part_004:895-901).
rangeReentry(c0, list) ==
    LET c1 == escapeList(c0, list).ctx
        j == join(c0, c1, "range")
    IN  IF j.state = "error" THEN ErrCtx(<<"reentry">> \o j.err) ELSE j

escapeBranch(c, n) ==
    LET b == escapeList(c, n.list)
        c0 == IF n.kind = "range" /\ b.ctx.state # "error" /\ ~b.panic
              THEN rangeReentry(b.ctx, n.list)
              ELSE b.ctx
        \* a failed re-entry returns at once; otherwise the else branch
        \* (the entry context when there is none) is scanned from c
        failed == b.ctx.state # "error" /\ c0.state = "error"
        e == IF n.hasElse /\ ~b.panic /\ ~failed
             THEN escapeList(c, n.elseList)
             ELSE [ctx |-> c, list |-> n.elseList, panic |-> FALSE]
    IN  [ctx |-> IF failed THEN c0 ELSE join(c0, e.ctx, n.kind),
         node |-> [n EXCEPT !.list = b.list, !.elseList = e.list],
         panic |-> b.panic \/ e.panic]

\* Every Define must end in the plain text context (part_004:903-906).
endError(c) ==
    IF c.state = "error" THEN c.err
    ELSE IF c.state # "text" THEN <<"nontext", c.state>>
    ELSE NoError

\* EscapeTree on the Defines of tr, taken in the order enum.  The error is
\* the one of the first Define that has one and carries that Define's name
\* (section 7, ContextError; part_004:942-951 names a Define per error).
RECURSIVE EscapeTree(_, _)
EscapeTree(tr, enum) ==
    IF enum = <<>>
    THEN [err |-> NoError, tree |-> tr, panic |-> FALSE, name |-> ""]
    ELSE LET r == escapeList(Ctx("text"), tr[Head(enum)].List)
             tr2 == [tr EXCEPT ![Head(enum)].List = r.list]
         IN  IF r.panic
             THEN [err |-> <<"panic">>, tree |-> tr2, panic |-> TRUE,
                   name |-> Head(enum)]
             ELSE IF endError(r.ctx) # NoError
             THEN [err |-> endError(r.ctx), tree |-> tr2, panic |-> FALSE,
                   name |-> Head(enum)]
             ELSE EscapeTree(tr2, Tail(enum))

(***************************************************************************)
(* inlineTree (inline.go:287-298) as a function of the tree: every outcome *)
(* the order of `range tree` and of `range unused` allows.                 *)
(***************************************************************************)
RECURSIVE inlineAll(_, _, _)
inlineAll(tr, ord, i) ==
    IF i > Len(ord) THEN {[err |-> NoErr, tree |-> tr]}
    ELSE UNION {IF r.err.kind # "ok" THEN {r} ELSE inlineAll(r.tree, ord, i + 1) :
                r \in inlineDefine(tr, ord[i])}

inlineTree(tr) ==
    UNION {LET co == compilationOrder(tr, enum)
           IN  IF co.err.kind # "ok" THEN {[err |-> co.err, tree |-> tr]}
               ELSE inlineAll(tr, co.order, 1) :
           enum \in Perms(DOMAIN tr)}

(***************************************************************************)
(* Set (inline.go:1097-1223): goroutines calling Parse, Escape, Clone and  *)
(* Compile on a Set made with new(Set) and on its clone.                   *)
(***************************************************************************)
NumGoroutines == 2
MaxCalls == 4

Goroutines == 1..NumGoroutines

\* The texts handed to Parse, each known by the template it defines:
\*   {{define "base"}}<a>{{block "h"}}{{.X}}{{end}}{{end}}
\*   {{define "child" "base"}}{{fill "h"}}{{.Y | html}}{{end}}{{end}}
\*   {{define "bad"}}{{block "h"}}<a{{end}}{{end}}
\*   {{define "loop" "loop"}}x{{end}}
ParseTexts == {"base", "child", "bad", "loop"}

\* parse.Parse (inline.go:1216): the Define a text is parsed into.
Parse(text) ==
    CASE text = "base" ->
            [Parent |-> "",
             List |-> <<HtmlText("<a>"),
                        BlockNode("h", <<ActionNode(<<FieldCmd(".X")>>)>>)>>]
      [] text = "child" ->
            [Parent |-> "base",
             List |-> <<FillNode("h", <<ActionNode(<<FieldCmd(".Y"),
                                                     newIdentCmd("html")>>)>>)>>]
      [] text = "bad" ->
            [Parent |-> "", List |-> <<BlockNode("h", <<HtmlText("<a")>>)>>]
      [] OTHER ->
            [Parent |-> "loop", List |-> <<HtmlText("x")>>]

EmptyTree == <<>>

\* new(Set), its tree being the map `id` of the heap.
NewSet(id) == [tree |-> id, escape |-> FALSE, compiled |-> FALSE, mutex |-> 0]

Idle == [at |-> "idle", set |-> "", before |-> <<>>,
         sawOk |-> FALSE, sawEscape |-> FALSE]

NoCall == [op |-> "", set |-> "", text |-> "", err |-> "", ranPass |-> FALSE,
           before |-> <<>>, sawOk |-> FALSE, sawEscape |-> FALSE]

SetNames == {"s", "ns"}

SetInit ==
    /\ sets = [st \in {"s"} |-> NewSet(1)]
    /\ maps = <<EmptyTree>>
    /\ gor = [g \in Goroutines |-> Idle]
    /\ hist = [calls |-> 0,
               passCalls |-> [st \in SetNames |-> 0],
               okPasses |-> [st \in SetNames |-> 0],
               compiledOk |-> [st \in SetNames |-> FALSE],
               escapeCalled |-> [st \in SetNames |-> FALSE],
               escaped |-> [st \in SetNames |-> FALSE],
               last |-> NoCall]
    /\ tree = <<>>
    /\ tree0 = <<>>
    /\ pc = "set"
    /\ order = <<>>
    /\ idx = 0
    /\ err = NoErr
    /\ IdleStep
    /\ IdlePipe
    /\ IdleHeap
    /\ IdleExec

\* s.mutex.Lock() returns: nobody holds the mutex.
mutexFree(st) == sets[st].mutex = 0

\* The tree of a Set.
TreeOfSet(st) == maps[sets[st].tree]

CanCall(g) == gor[g].at = "idle" /\ hist.calls < MaxCalls

Returned(op, st, text, e, ran, before, sawOk, sawEscape) ==
    [op |-> op, set |-> st, text |-> text, err |-> e, ranPass |-> ran,
     before |-> before, sawOk |-> sawOk, sawEscape |-> sawEscape]

otherSetVars == <<inlineVars, stepVars, pipeVars, heapVars, execVars>>

\* Escape (inline.go:1146-1149): s.escape is written without the mutex.
SetEscape(g, st) ==
    /\ CanCall(g)
    /\ st \in DOMAIN sets
    /\ sets' = [sets EXCEPT ![st].escape = TRUE]
    /\ hist' = [hist EXCEPT
                  !.calls = @ + 1,
                  !.escapeCalled[st] = TRUE,
                  !.last = Returned("Escape", st, "", "", FALSE, maps,
                                    hist.compiledOk[st], hist.escapeCalled[st])]
    /\ UNCHANGED <<maps, gor, otherSetVars>>

\* Funcs (inline.go:1136-1141): s.init() and the writes to s.execFuncs and
\* s.parseFuncs, without the mutex.  The maps are not part of the model:
\* the call is only recorded.
SetFuncs(g, st) ==
    /\ CanCall(g)
    /\ st \in DOMAIN sets
    /\ hist' = [hist EXCEPT
                  !.calls = @ + 1,
                  !.last = Returned("Funcs", st, "", "", FALSE, maps,
                                    hist.compiledOk[st], hist.escapeCalled[st])]
    /\ UNCHANGED <<sets, maps, gor, otherSetVars>>

\* Mutant: the compiled flag does not lock the Set.
parseLockedNever(s) == FALSE

\* if s.compiled (inline.go:1211-1214).
parseLocked(s) == s.compiled

\* s.tree.AddTree(tree) (inline.go:1219) for the one Define of a text.  What
\* it does with a name the tree has is not stated anywhere: it may refuse
\* it or replace the Define.
AddTree(tr, text) ==
    IF text \in DOMAIN tr
    THEN {[err |-> "redefinition", tree |-> tr],
          [err |-> "", tree |-> [tr EXCEPT ![text] = Parse(text)]]}
    ELSE {[err |-> "", tree |-> tr @@ (text :> Parse(text))]}

\* parse (inline.go:1208-1223), the body of Parse, ParseFiles and ParseGlob,
\* from Lock to the deferred Unlock.
SetParse(g, st, text) ==
    /\ CanCall(g)
    /\ st \in DOMAIN sets
    /\ mutexFree(st)
    /\ \E r \in IF parseLocked(sets[st])
                THEN {[err |-> "locked", tree |-> TreeOfSet(st)]}
                ELSE AddTree(TreeOfSet(st), text) :
          /\ maps' = [maps EXCEPT ![sets[st].tree] = r.tree]
          /\ hist' = [hist EXCEPT
                        !.calls = @ + 1,
                        !.last = Returned("Parse", st, text, r.err, FALSE, maps,
                                          hist.compiledOk[st], hist.escapeCalled[st])]
    /\ UNCHANGED <<sets, gor, otherSetVars>>

\* Mutant: the clone's tree field is the original's map.
cloneTreeShared(n, id) == id

\* ns.init() (inline.go:1161): the clone's tree is a map of its own, the
\* n-th of the heap.
cloneTree(n, id) == n

\* Clone (inline.go:1157-1175) of the Set "s", from Lock to Unlock.
\* s.tree.Copy() gives the Defines of s under their names.
SetClone(g) ==
    /\ CanCall(g)
    /\ "ns" \notin DOMAIN sets
    /\ mutexFree("s")
    /\ maps' = Append(maps, TreeOfSet("s"))
    /\ sets' = sets @@ ("ns" :> [tree |-> cloneTree(Len(maps) + 1, sets["s"].tree),
                                 escape |-> sets["s"].escape,
                                 compiled |-> sets["s"].compiled,
                                 mutex |-> 0])
    /\ hist' = [hist EXCEPT
                  !.calls = @ + 1,
                  !.compiledOk["ns"] = hist.compiledOk["s"],
                  !.escapeCalled["ns"] = hist.escapeCalled["s"],
                  !.escaped["ns"] = hist.escaped["s"],
                  !.last = Returned("Clone", "s", "", "", FALSE, maps,
                                    hist.compiledOk["s"], hist.escapeCalled["s"])]
    /\ UNCHANGED <<gor, otherSetVars>>

\* Mutant: the compiled flag is not looked at.
compileNeededAlways(s) == TRUE

\* if !s.compiled (inline.go:1184).
compileNeeded(s) == ~s.compiled

\* Compile (inline.go:1181-1184, 1198): Lock, and the way past the passes
\* of a compiled Set.
SetCompileCall(g, st) ==
    /\ CanCall(g)
    /\ st \in DOMAIN sets
    /\ mutexFree(st)
    /\ IF compileNeeded(sets[st])
       THEN /\ sets' = [sets EXCEPT ![st].mutex = g]
            /\ gor' = [gor EXCEPT ![g] =
                         [at |-> "inline", set |-> st, before |-> maps,
                          sawOk |-> hist.compiledOk[st],
                          sawEscape |-> hist.escapeCalled[st]]]
            /\ hist' = [hist EXCEPT !.calls = @ + 1, !.last = NoCall]
       ELSE /\ hist' = [hist EXCEPT
                          !.calls = @ + 1,
                          !.compiledOk[st] = TRUE,
                          !.last = Returned("Compile", st, "", "", FALSE, maps,
                                            hist.compiledOk[st],
                                            hist.escapeCalled[st])]
            /\ UNCHANGED <<sets, gor>>
    /\ UNCHANGED <<maps, otherSetVars>>

\* return nil, err and return s, nil of Compile, with the deferred Unlock.
CompileReturns(g, e, ok) ==
    LET st == gor[g].set
    IN  /\ gor' = [gor EXCEPT ![g] = Idle]
        /\ hist' = [hist EXCEPT
                      !.passCalls[st] = @ + 1,
                      !.okPasses[st] = IF ok THEN @ + 1 ELSE @,
                      !.compiledOk[st] = @ \/ ok,
                      !.escaped[st] = @ \/ (ok /\ sets[st].escape),
                      !.last = Returned("Compile", st, "", e, TRUE, gor[g].before,
                                        gor[g].sawOk, gor[g].sawEscape)]

\* Compile (inline.go:1185-1188): the inlining pass.
SetCompileInline(g) ==
    /\ gor[g].at = "inline"
    /\ LET st == gor[g].set
       IN  \E r \in inlineTree(TreeOfSet(st)) :
             /\ maps' = [maps EXCEPT ![sets[st].tree] = r.tree]
             /\ IF r.err.kind # "ok"
                THEN /\ sets' = [sets EXCEPT ![st].mutex = 0]
                     /\ CompileReturns(g, "inline", FALSE)
                ELSE /\ gor' = [gor EXCEPT ![g].at = "escape"]
                     /\ hist' = [hist EXCEPT !.last = NoCall]
                     /\ UNCHANGED sets
    /\ UNCHANGED otherSetVars

\* Compile (inline.go:1189-1198): the escaping pass of a Set whose escape
\* flag is set, then s.compiled = true.
SetCompileEscape(g) ==
    /\ gor[g].at = "escape"
    /\ LET st == gor[g].set
           tr == TreeOfSet(st)
       IN  IF sets[st].escape
           THEN \E r \in {EscapeTree(tr, enum) : enum \in Perms(DOMAIN tr)} :
                  /\ maps' = [maps EXCEPT ![sets[st].tree] = r.tree]
                  /\ IF r.err # NoError
                     THEN /\ sets' = [sets EXCEPT ![st].mutex = 0]
                          /\ CompileReturns(g, IF r.panic THEN "panic" ELSE "escape",
                                            FALSE)
                     ELSE /\ sets' = [sets EXCEPT ![st].mutex = 0,
                                                  ![st].compiled = TRUE]
                          /\ CompileReturns(g, "", TRUE)
           ELSE /\ sets' = [sets EXCEPT ![st].mutex = 0, ![st].compiled = TRUE]
                /\ CompileReturns(g, "", TRUE)
                /\ UNCHANGED maps
    /\ UNCHANGED otherSetVars

SetNext ==
    \E g \in Goroutines :
        \/ \E st \in SetNames : SetEscape(g, st)
        \/ \E st \in SetNames : SetFuncs(g, st)
        \/ \E st \in SetNames, text \in ParseTexts : SetParse(g, st, text)
        \/ SetClone(g)
        \/ \E st \in SetNames : SetCompileCall(g, st)
        \/ SetCompileInline(g)
        \/ SetCompileEscape(g)

SetSpec == SetInit /\ [][SetNext]_vars

(***************************************************************************)
(* The Set claims, stated on the history of the calls.                     *)
(***************************************************************************)
\* The tree of Set st as it was when the call that returned last was made.
TreeBefore(st) == hist.last.before[sets[st].tree]

\* No two goroutines are between Lock and Unlock of Compile on one Set.
OneAtATime ==
    \A g, h \in Goroutines :
        (g # h /\ gor[g].at # "idle" /\ gor[h].at # "idle") => gor[g].set # gor[h].set

\* C13 as stated: over any number of Compile calls on one Set the passes run
\* in one call at most.
C13_Original == \A st \in SetNames : hist.passCalls[st] <= 1

\* C13: Compile calls on one Set run their passes one call at a time, the
\* passes run to success in one call at most, and a call made after a Compile
\* has returned success runs no pass, returns success and leaves the tree as
\* it was.
C13_OnceAfterSuccess ==
    /\ OneAtATime
    /\ \A st \in SetNames : hist.okPasses[st] <= 1
    /\ (hist.last.op = "Compile" /\ hist.last.sawOk) =>
           /\ ~hist.last.ranPass
           /\ hist.last.err = ""
           /\ TreeOfSet(hist.last.set) = TreeBefore(hist.last.set)

\* A second Compile returns on a Set whose first Compile inlined a child
\* into its base.
C13_Witness ==
    /\ hist.last.op = "Compile" /\ hist.last.set = "s" /\ hist.last.sawOk
    /\ hist.okPasses["s"] = 1
    /\ "child" \in DOMAIN TreeOfSet("s")
    /\ TreeOfSet("s")["child"].Parent = ""

C15_Atomic ==
    (hist.last.op = "Compile" /\ hist.last.err # "") =>
        TreeOfSet(hist.last.set) = TreeBefore(hist.last.set)

\* C16: a Compile that is called after Escape has returned and returns
\* success leaves the Set's tree with the escaping pass applied.
C16_EscapeApplied ==
    (hist.last.op = "Compile" /\ hist.last.err = "" /\ hist.last.sawEscape) =>
        hist.escaped[hist.last.set]

\* The last call was a Parse on Set st of a text whose template st lacked.
ParsedNew(st) ==
    /\ hist.last.op = "Parse" /\ hist.last.set = st
    /\ hist.last.text \notin DOMAIN TreeBefore(st)

MaxBranchLen == 2

\* The text of the branches.
BranchTexts == {"<a", ">", "<a>", " x='", "?q", " checked"}

\* The pipelines of the actions: {{.X}}, {{.X | noescape}}, {{.X | html | .Y}}.
EscPipes ==
    {<<FieldCmd(".X")>>,
     <<FieldCmd(".X"), newIdentCmd("noescape")>>,
     <<FieldCmd(".X"), newIdentCmd("html"), FieldCmd(".Y")>>}

Leaves == {HtmlText(f) : f \in BranchTexts} \cup {ActionNode(p) : p \in EscPipes}

\* Nothing, `<a`, `<a x='` and `<a href='` before the node.
Openings ==
    {<<>>, <<HtmlText("<a")>>, <<HtmlText("<a"), HtmlText(" x='")>>,
     <<HtmlText("<a"), HtmlText(" href='")>>}

\* Nothing, `>`, `'>` and `{{.X}}'>` after the node.
Closings ==
    {<<>>, <<HtmlText(">")>>, <<HtmlText("'"), HtmlText(">")>>,
     <<ActionNode(<<FieldCmd(".X")>>), HtmlText("'"), HtmlText(">")>>}

\* The Define "t" of the tree, the node being the one after the opening.
EscTree(open, node, close) ==
    [t \in {"t"} |-> [Parent |-> "", List |-> open \o <<node>> \o close]]

EscInit ==
    /\ \E open \in Openings, close \in Closings :
          \/ \E p \in EscPipes : tree = EscTree(open, ActionNode(p), close)
          \/ \E k \in {"if", "with", "range"},
                l \in SeqsUpTo(Leaves, MaxBranchLen) :
                \/ tree = EscTree(open, BranchNode(k, l), close)
                \/ \E e \in SeqsUpTo(Leaves, 1) :
                      tree = EscTree(open, BranchElseNode(k, l, e), close)
    /\ tree0 = tree
    /\ pc = "escape"
    /\ order = <<>>
    /\ idx = 0
    /\ err = NoErr
    /\ IdleStep
    /\ IdlePipe
    /\ IdleSet
    /\ IdleHeap
    /\ IdleExec

\* escape.EscapeTree(s.tree) (inline.go:1191): the tree is rewritten in
\* place and the error, if any, returned.
EscapeTreeCall ==
    /\ pc = "escape"
    /\ \E r \in {EscapeTree(tree, enum) : enum \in Perms(DOMAIN tree)} :
          /\ tree' = r.tree
          /\ err' = [kind |-> IF r.panic THEN "panic"
                              ELSE IF r.err = NoError THEN "ok"
                              ELSE r.err[1],
                     names |-> r.err]
    /\ pc' = "done"
    /\ UNCHANGED <<tree0, order, idx, stepVars, pipeVars, setVars, heapVars, execVars>>

EscNext == EscapeTreeCall

EscSpec == EscInit /\ [][EscNext]_vars

(***************************************************************************)
(* The escaping claims, stated on the body as parsed (tree0) and on what   *)
(* EscapeTree left (tree, err).                                            *)
(***************************************************************************)
\* The context in which node k of a list is met when the list is entered
\* in context c.
CtxAt(c, nodes, k) == escapeList(c, SubSeq(nodes, 1, k - 1)).ctx

\* The actions of a list entered in context c: the context each is met in,
\* its pipeline as parsed and its pipeline in the list `after`.
RECURSIVE ActionsAt(_, _, _)
ActionsAt(c, nodes, after) ==
    UNION {LET n == nodes[k]
               ck == CtxAt(c, nodes, k)
           IN  IF n.kind = "action"
               THEN {[ctx |-> ck, cmds0 |-> n.cmds, cmds |-> after[k].cmds]}
               ELSE IF IsBranch(n)
               THEN ActionsAt(ck, n.list, after[k].list)
                    \cup (IF n.hasElse
                          THEN ActionsAt(ck, n.elseList, after[k].elseList)
                          ELSE {})
               ELSE {} : k \in 1..Len(nodes)}

HtmlEscapers == {"html_template_htmlescaper", "html"}

CarriesHtmlEscaper(p) ==
    \E i \in 1..Len(TrailingIdents(p)) : TrailingIdents(p)[i].name \in HtmlEscapers

\* C18: after a successful compile with escaping, every action met in the
\* plain text context has an HTML escaper (html_template_htmlescaper or the
\* builtin html) among the trailing identifier commands of its pipeline,
\* unless noescape is among them.
C18_TextActionsEscaped ==
    (pc = "done" /\ err.kind = "ok" /\ tree0 # <<>> /\ "t" \in DOMAIN tree0) =>
        \A a \in ActionsAt(Ctx("text"), tree0["t"].List, tree["t"].List) :
            a.ctx.state = "text" =>
                \/ Exempt(TrailingIdents(a.cmds))
                \/ CarriesHtmlEscaper(a.cmds)

\* The control of the body, the context it is entered in and the contexts
\* its branches end in; without {{else}} the else branch ends where the
\* control is entered.
Body0 == tree0["t"].List

HasControl(kinds) ==
    /\ pc = "done" /\ tree0 # <<>> /\ "t" \in DOMAIN tree0
    /\ \E k \in 1..Len(Body0) : Body0[k].kind \in kinds

ControlAt == CHOOSE k \in 1..Len(Body0) : IsBranch(Body0[k])

Control == Body0[ControlAt]

Entry == CtxAt(Ctx("text"), Body0, ControlAt)

BodyExit == escapeList(Entry, Control.list).ctx

ElseExit == IF Control.hasElse THEN escapeList(Entry, Control.elseList).ctx ELSE Entry

\* The body scanned once more from where its first scan ended.
ReExit == escapeList(BodyExit, Control.list).ctx

NoScanError(cs) == \A c \in cs : c.state # "error"

\* The contexts are equal, or differ only in the part of the URL, or are a
\* tag and an attribute name.
Joinable(a, b) ==
    \/ a = b
    \/ a.state = "url" /\ b.state = "url"
    \/ {a.state, b.state} = {"tag", "attrName"}

MaxBodyLen == 2

\* The text of the bodies.
EndTexts == {"<a", ">", " x='", " href='", "'", "<script>", "</script>"}

\* Text, {{.X}} and {{if .X}}<a{{end}}.
BodyLeaves ==
    {HtmlText(f) : f \in EndTexts}
        \cup {ActionNode(<<FieldCmd(".X")>>), BranchNode("if", <<HtmlText("<a")>>)}

\* The bodies of "u": `<a>`, `<a` and `<a<a`.
OtherBodies ==
    {<<HtmlText("<a>")>>, <<HtmlText("<a")>>, <<HtmlText("<a"), HtmlText("<a")>>}

ExecInit ==
    /\ \E b \in SeqsUpTo(BodyLeaves, MaxBodyLen), o \in OtherBodies :
          tree = ("t" :> [Parent |-> "", List |-> b])
                    @@ ("u" :> [Parent |-> "", List |-> o])
    /\ tree0 = tree
    /\ pc = "execute"
    /\ order = <<>>
    /\ idx = 0
    /\ err = NoErr
    /\ out = <<>>
    /\ IdleStep
    /\ IdlePipe
    /\ IdleSet
    /\ IdleHeap

\* Mutant: the error of the escaping pass is dropped.
escapeFailedNever(e) == FALSE

\* err != nil after escape.EscapeTree (inline.go:1191).
escapeFailed(e) == e # NoError

\* Execute calls Compile (inline.go:1181-1199) on the Set: the inlining pass,
\* then the escaping pass; an error of either is returned by Execute.
ExecuteCompile ==
    /\ pc = "execute"
    /\ \E i \in inlineTree(tree) :
          IF i.err.kind # "ok"
          THEN /\ tree' = i.tree
               /\ err' = [kind |-> i.err.kind, names |-> i.err.names, define |-> ""]
               /\ pc' = "done"
          ELSE \E r \in {EscapeTree(i.tree, enum) : enum \in Perms(DOMAIN i.tree)} :
                  /\ tree' = r.tree
                  /\ IF escapeFailed(r.err)
                     THEN /\ err' = [kind |-> r.err[1], names |-> r.err,
                                     define |-> r.name]
                          /\ pc' = "done"
                     ELSE /\ err' = err
                          /\ pc' = "exec"
    /\ UNCHANGED <<tree0, order, idx, out, stepVars, pipeVars, setVars, heapVars>>

\* Execute runs the compiled template `name` and writes its output.
ExecuteWrite ==
    /\ pc = "exec"
    /\ \E name \in DOMAIN tree : out' = Append(out, name)
    /\ pc' = "done"
    /\ UNCHANGED <<tree, tree0, order, idx, err, stepVars, pipeVars, setVars, heapVars>>

ExecNext == ExecuteCompile \/ ExecuteWrite

ExecSpec == ExecInit /\ [][ExecNext]_vars

\* The context the body of Define d ends in when it is scanned from the
\* plain text context.
EndCtx(d) == escapeList(Ctx("text"), tree0[d].List).ctx

EndsOutsideText(d) == EndCtx(d).state \notin {"text", "error"}

Descendants(t) ==
    {d \in DOMAIN tree0 \ {t} : t \in Range(Ancestry(d))}

\* inlineDefine has returned for t: its parent is empty and no Block or Fill
\* is left in its body.
Inlined(t) == tree[t].Parent = "" /\ ~HasBlockOrFill(tree[t].List)

\* C22: the order compilationOrder returns holds every template once, with
\* every template before each of its ancestors; so when inlineDefine runs on
\* a template, a root included, it has returned for every descendant of it.
C22_DescendantsFirst ==
    pc = "inline" =>
        /\ Len(order) = Cardinality(DOMAIN tree0)
        /\ Range(order) = DOMAIN tree0
        /\ \A t \in DOMAIN tree0 : \A d \in Descendants(t) :
              /\ Pos(order, d) < Pos(order, t)
              /\ idx = Pos(order, t) => Inlined(d)

\* inlineDefine runs on the root of a chain of three, last of the order.
C22_Witness ==
    /\ pc = "inline"
    /\ idx = 3
    /\ tree0[order[3]].Parent = ""
    /\ \E d \in Descendants(order[3]) :
          tree0[d].Parent # order[3] /\ Inlined(d)

(***************************************************************************)
(* HeapSpec: inlineTree on a tree whose lists are objects.  A *ListNode is *)
(* an address of the heap, heap[a] being its Nodes; a node holds the       *)
(* addresses of its List and ElseList, Nil being the nil *ListNode.        *)
(* inlineDefine, applyFillers and cleanupBlock write to these objects in   *)
(* place (inline.go:301-417).  CopyList and CopyFill belong to the parse   *)
(* package, which is not among the sources translated here: they are the   *)
(* deep copies of section 4.4 of the specification.                        *)
(***************************************************************************)
MaxRuns == 2

Nil == 0

\* The *ListNode a as an element of another list's Nodes.
ListRef(a) ==
    [kind |-> "list", name |-> "", id |-> NoId,
     list |-> a, elseList |-> Nil, hasElse |-> FALSE]

\* The list an address stands for, as the parser would print it.
RECURSIVE Deref(_, _)
Deref(h, a) ==
    IF a = Nil THEN <<>>
    ELSE [k \in 1..Len(h[a]) |->
             [h[a][k] EXCEPT !.list = Deref(h, @), !.elseList = Deref(h, @)]]

\* The *ListNode objects reached from a.
RECURSIVE Reach(_, _)
Reach(h, a) ==
    IF a = Nil THEN {}
    ELSE {a} \cup UNION {Reach(h, h[a][k].list) \cup Reach(h, h[a][k].elseList) :
                         k \in 1..Len(h[a])}

\* The objects of a heap moved up by off addresses (written with \o so
\* that every object is a sequence proper).
Shift(objs, off) ==
    <<>> \o [i \in 1..Len(objs) |->
               <<>> \o [k \in 1..Len(objs[i]) |->
                          [objs[i][k] EXCEPT
                              !.list = IF @ = Nil THEN Nil ELSE @ + off,
                              !.elseList = IF @ = Nil THEN Nil ELSE @ + off]]]

\* The objects the list `nodes` is made of, the lists inside it first and
\* the list itself last, addressed from 1.
RECURSIVE listObjects(_)
RECURSIVE nodeObjects(_)
listObjects(nodes) ==
    LET r == nodeObjects(nodes) IN Append(r.heap, r.nodes)

nodeObjects(nodes) ==
    IF nodes = <<>> THEN [heap |-> <<>>, nodes |-> <<>>]
    ELSE LET front == nodeObjects(SubSeq(nodes, 1, Len(nodes) - 1))
             v == nodes[Len(nodes)]
             l == IF v.kind = "text" THEN <<>> ELSE listObjects(v.list)
             e == IF v.hasElse THEN listObjects(v.elseList) ELSE <<>>
             off == Len(front.heap)
         IN  [heap |-> front.heap \o Shift(l, off) \o Shift(e, off + Len(l)),
              nodes |-> Append(front.nodes,
                               [v EXCEPT
                                  !.list = IF l = <<>> THEN Nil ELSE off + Len(l),
                                  !.elseList = IF e = <<>> THEN Nil
                                               ELSE off + Len(l) + Len(e)])]

\* New objects on the heap h for the list `nodes` and the lists inside it.
newList(h, nodes) ==
    LET objs == listObjects(nodes)
    IN  [heap |-> h \o Shift(objs, Len(h)), addr |-> Len(h) + Len(objs)]

\* l.CopyList(): a deep copy of the list at a.
CopyList(h, a) == newList(h, Deref(h, a))

\* f.CopyFill(): the Fill with a deep copy of its list.
CopyFill(h, f) ==
    LET c == CopyList(h, f.list)
    IN  [heap |-> c.heap, node |-> [f EXCEPT !.list = c.addr]]

\* applyFillers (inline.go:339-372) on the nodes k.. of the list at a: the
\* heap it leaves and the names whose `unused` entry it set to false.
RECURSIVE applyFillersAt(_, _, _, _)
applyFillersAt(h, a, k, fillers) ==
    IF a = Nil \/ k > Len(h[a]) THEN [heap |-> h, used |-> {}]
    ELSE LET v == h[a][k]
             r == IF v.kind = "block" /\ v.name \in DOMAIN fillers
                  THEN LET c == CopyList(h, fillers[v.name].list)
                       IN  [heap |-> [c.heap EXCEPT ![a][k] = ListRef(c.addr)],
                            used |-> {}]
                  ELSE IF v.kind = "fill" /\ v.name \in DOMAIN fillers
                  THEN LET c == CopyFill(h, fillers[v.name])
                       IN  [heap |-> [c.heap EXCEPT ![a][k] = c.node],
                            used |-> {v.name}]
                  ELSE IF IsBranch(v)
                  THEN LET x == applyFillersAt(h, v.list, 1, fillers)
                           y == applyFillersAt(x.heap, v.elseList, 1, fillers)
                       IN  [heap |-> y.heap, used |-> x.used \cup y.used]
                  ELSE IF v.kind = "list"
                  THEN applyFillersAt(h, v.list, 1, fillers)
                  ELSE [heap |-> h, used |-> {}]
             t == applyFillersAt(r.heap, a, k + 1, fillers)
         IN  [heap |-> t.heap, used |-> r.used \cup t.used]

\* Mutant: the list put in place of a Block is not visited.
RECURSIVE cleanupBlockAtNoRevisit(_, _, _)
cleanupBlockAtNoRevisit(h, a, k) ==
    IF a = Nil \/ k > Len(h[a]) THEN h
    ELSE LET v == h[a][k]
         IN  IF v.kind = "block"
             THEN cleanupBlockAtNoRevisit([h EXCEPT ![a][k] = ListRef(v.list)], a, k + 1)
             ELSE IF v.kind = "fill"
             THEN cleanupBlockAtNoRevisit([h EXCEPT ![a] = RemoveAt(@, k)], a, k)
             ELSE IF IsBranch(v)
             THEN cleanupBlockAtNoRevisit(
                      cleanupBlockAtNoRevisit(
                          cleanupBlockAtNoRevisit(h, v.list, 1), v.elseList, 1),
                      a, k + 1)
             ELSE IF v.kind = "list"
             THEN cleanupBlockAtNoRevisit(cleanupBlockAtNoRevisit(h, v.list, 1), a, k + 1)
             ELSE cleanupBlockAtNoRevisit(h, a, k + 1)

\* Mutant: a Fill is unwrapped like a Block, not removed.
RECURSIVE cleanupBlockAtKeepFill(_, _, _)
cleanupBlockAtKeepFill(h, a, k) ==
    IF a = Nil \/ k > Len(h[a]) THEN h
    ELSE LET v == h[a][k]
         IN  IF v.kind \in {"block", "fill"}
             THEN cleanupBlockAtKeepFill([h EXCEPT ![a][k] = ListRef(v.list)], a, k)
             ELSE IF IsBranch(v)
             THEN cleanupBlockAtKeepFill(
                      cleanupBlockAtKeepFill(
                          cleanupBlockAtKeepFill(h, v.list, 1), v.elseList, 1),
                      a, k + 1)
             ELSE IF v.kind = "list"
             THEN cleanupBlockAtKeepFill(cleanupBlockAtKeepFill(h, v.list, 1), a, k + 1)
             ELSE cleanupBlockAtKeepFill(h, a, k + 1)

\* cleanupBlock (inline.go:384-417) on the nodes k.. of the list at a.
RECURSIVE cleanupBlockAt(_, _, _)
cleanupBlockAt(h, a, k) ==
    IF a = Nil \/ k > Len(h[a]) THEN h
    ELSE LET v == h[a][k]
         IN  IF v.kind = "block"
             THEN cleanupBlockAt([h EXCEPT ![a][k] = ListRef(v.list)], a, k)
             ELSE IF v.kind = "fill"
             THEN cleanupBlockAt([h EXCEPT ![a] = RemoveAt(@, k)], a, k)
             ELSE IF IsBranch(v)
             THEN cleanupBlockAt(
                      cleanupBlockAt(cleanupBlockAt(h, v.list, 1), v.elseList, 1),
                      a, k + 1)
             ELSE IF v.kind = "list"
             THEN cleanupBlockAt(cleanupBlockAt(h, v.list, 1), a, k + 1)
             ELSE cleanupBlockAt(h, a, k + 1)

\* Mutant: the define takes the parent's list itself.
parentCopyNone(h, a) == [heap |-> h, addr |-> a]

\* define.List = parent.List.CopyList() (inline.go:324).
parentCopy(h, a) == CopyList(h, a)

\* define.List.Nodes = append(define.List.Nodes, fillers[k].CopyFill()) for
\* the names of `extra` (inline.go:329-333).
RECURSIVE appendExtra(_, _, _, _)
appendExtra(h, a, fillers, extra) ==
    IF extra = <<>> THEN h
    ELSE LET c == CopyFill(h, fillers[Head(extra)])
         IN  appendExtra([c.heap EXCEPT ![a] = Append(@, c.node)], a, fillers,
                         Tail(extra))

\* The bodies of the templates: template i has shape s + i - 1, counted
\* round the shapes.
ShapeAt(s, t) ==
    LET i == CHOOSE j \in 1..NumTemplates : TemplateNames[j] = t
    IN  ((s + i - 2) % NumShapes) + 1

\* The parser's tree: the lists of the defines are built one define after
\* the other.
RECURSIVE parseTree(_, _)
parseTree(names, defs) ==
    IF names = <<>> THEN [heap |-> <<>>, tree |-> <<>>]
    ELSE LET rest == parseTree(SubSeq(names, 1, Len(names) - 1), defs)
             t == names[Len(names)]
             l == newList(rest.heap, defs[t].List)
         IN  [heap |-> l.heap,
              tree |-> rest.tree @@ (t :> [Parent |-> defs[t].Parent, List |-> l.addr])]

\* The tree with its lists written out.
Bodies(h, tr) ==
    [t \in DOMAIN tr |-> [Parent |-> tr[t].Parent, List |-> Deref(h, tr[t].List)]]

HeapInit ==
    /\ \E par \in ParentChoices, s \in 1..NumShapes :
          tree0 = [t \in Names |-> DefineNode(t, par[t], ShapeAt(s, t))]
    /\ heap = parseTree(SubSeq(TemplateNames, 1, NumTemplates), tree0).heap
    /\ tree = parseTree(SubSeq(TemplateNames, 1, NumTemplates), tree0).tree
    /\ tree1 = <<>>
    /\ runs = 0
    /\ pc = "start"
    /\ order = <<>>
    /\ idx = 0
    /\ err = NoErr
    /\ IdleStep
    /\ IdlePipe
    /\ IdleSet
    /\ IdleExec

\* inlineTree returns e.
HeapReturn(e, h, tr) ==
    /\ err' = e
    /\ pc' = "done"
    /\ order' = <<>>
    /\ idx' = 0
    /\ runs' = runs + 1
    /\ tree1' = IF runs = 0 /\ e.kind = "ok" THEN Bodies(h, tr) ELSE tree1

\* order, err := compilationOrder(tree) (inline.go:288-291).
HeapOrder ==
    /\ pc = "start"
    /\ \E r \in {compilationOrder(tree, enum) : enum \in Perms(DOMAIN tree)} :
          IF r.err.kind # "ok"
          THEN HeapReturn(r.err, heap, tree)
          ELSE /\ pc' = "inline"
               /\ order' = r.order
               /\ idx' = 1
               /\ UNCHANGED <<err, runs, tree1>>
    /\ UNCHANGED <<tree, tree0, heap, out, stepVars, pipeVars, setVars>>

\* One pass of inlineDefine(tree, order[idx]) (inline.go:301-335): the
\* cleanup of a parentless define and the return to inlineTree's loop, or
\* one re-parenting.
HeapInline ==
    /\ pc = "inline"
    /\ idx <= Len(order)
    /\ LET name == order[idx]
           define == tree[name]
       IN  IF define.Parent = ""
           THEN LET h == cleanupBlockAt(heap, define.List, 1)
                IN  /\ heap' = h
                    /\ IF idx = Len(order)
                       THEN HeapReturn(NoErr, h, tree)
                       ELSE /\ idx' = idx + 1
                            /\ UNCHANGED <<pc, order, err, runs, tree1>>
                    /\ UNCHANGED tree
           ELSE IF define.Parent \notin DOMAIN tree
           THEN /\ HeapReturn([kind |-> "undefinedparent",
                               names |-> <<define.Parent>>], heap, tree)
                /\ UNCHANGED <<tree, heap>>
           ELSE LET parent == tree[define.Parent]
                    fillers == collectFillers(heap[define.List])
                    c == parentCopy(heap, parent.List)
                    ap == applyFillersAt(c.heap, c.addr, 1, fillers)
                IN  /\ \E extra \in Perms(DOMAIN fillers \ ap.used) :
                          heap' = appendExtra(ap.heap, c.addr, fillers, extra)
                    /\ tree' = [tree EXCEPT ![name] =
                                   [Parent |-> parent.Parent, List |-> c.addr]]
                    /\ UNCHANGED <<pc, order, idx, err, runs, tree1>>
    /\ UNCHANGED <<tree0, out, stepVars, pipeVars, setVars>>

\* A retried Compile calls inlineTree on the tree the call before has
\* inlined (inline.go:1186, s.compiled being false after an escaping error).
HeapAgain ==
    /\ pc = "done"
    /\ err.kind = "ok"
    /\ runs < MaxRuns
    /\ pc' = "start"
    /\ UNCHANGED <<tree, tree0, heap, tree1, runs, order, idx, err, out,
                   stepVars, pipeVars, setVars>>

HeapNext == HeapOrder \/ HeapInline \/ HeapAgain

HeapSpec == HeapInit /\ [][HeapNext]_vars

(***************************************************************************)
(* The claims on the objects of the tree, stated on HeapSpec.              *)
(***************************************************************************)
\* The parent or the body of t is not what the parser left.
Rewritten(t) == Bodies(heap, tree)[t] # tree0[t]

\* inlineTree's loop is past t.
Finished(t) == pc = "done" \/ (pc = "inline" /\ Pos(order, t) < idx)

\* No *ListNode is reached from the bodies of two templates.
NoSharedList ==
    \A t, u \in DOMAIN tree :
        t # u => Reach(heap, tree[t].List) \cap Reach(heap, tree[u].List) = {}

\* C23: at every step of the first inlineTree call no list object belongs
\* to the bodies of two templates, and a template whose parent or body is
\* not as parsed has all its descendants past inlining; so while
\* inlineDefine works on a template, the bodies of its ancestors are as
\* the parser left them.
C23_AncestorsUntouched ==
    (runs = 0 /\ tree0 # <<>> /\ heap # <<>>) =>
        /\ NoSharedList
        /\ \A t \in DOMAIN tree0 :
              Rewritten(t) => \A d \in Descendants(t) : Finished(d)

\* A child has taken its copy of the parent's body, with its Fill in place
\* of the parent's Block, and the parent is as parsed.
C23_Witness ==
    /\ runs = 0 /\ heap # <<>> /\ pc = "inline"
    /\ \E t \in DOMAIN tree0 :
          /\ tree0[t].Parent \in DOMAIN tree0
          /\ idx = Pos(order, t)
          /\ Rewritten(t)
          /\ ~Rewritten(tree0[t].Parent)
          /\ HasBlockOrFill(tree0[tree0[t].Parent].List)
          /\ Bodies(heap, tree)[t].List # tree0[tree0[t].Parent].List

(***************************************************************************)
(* FillSpec: inlineDefine on a child "t2" of a root "t1", one pass of its  *)
(* recursion per step, over all pairs of body shapes.                      *)
(***************************************************************************)
NumBodies == 10

FillInit ==
    /\ \E a, b \in 1..NumBodies :
          tree = ("t1" :> DefineNode("t1", "", a)) @@ ("t2" :> DefineNode("t2", "t1", b))
    /\ tree0 = tree
    /\ pc = "fill"
    /\ order = <<>>
    /\ idx = 0
    /\ err = NoErr
    /\ IdleStep
    /\ IdlePipe
    /\ IdleSet
    /\ IdleHeap
    /\ IdleExec

\* The first pass of inlineDefine(tree, "t2") (inline.go:312-335): the copy
\* of the parent's body with the child's Fills applied.
FillApply ==
    /\ pc = "fill"
    /\ \E extra \in Perms(unusedAfter(tree["t2"], tree["t1"])) :
          tree' = [tree EXCEPT !["t2"] =
                      inlineRound(tree["t2"], tree["t1"],
                                  collectFillers(tree["t2"].List), extra)]
    /\ pc' = "cleanup"
    /\ UNCHANGED <<tree0, order, idx, err, stepVars, pipeVars, setVars, heapVars, execVars>>

\* The second pass (inline.go:303-306): the define has no parent any more.
FillCleanup ==
    /\ pc = "cleanup"
    /\ tree' = [tree EXCEPT !["t2"].List = cleanupBlock(@)]
    /\ pc' = "done"
    /\ UNCHANGED <<tree0, order, idx, err, stepVars, pipeVars, setVars, heapVars, execVars>>

FillNext == FillApply \/ FillCleanup

FillSpec == FillInit /\ [][FillNext]_vars

\* A body with every Block whose name F maps replaced by the content of F's
\* Fill, wherever the Block stands: at the top level, inside the branches of
\* an If, Range or With, and inside the default content of another Block.
RECURSIVE ReplaceAll(_, _)
ReplaceAll(nodes, F) ==
    [k \in 1..Len(nodes) |->
        LET v == nodes[k]
        IN  IF v.kind = "block" /\ v.name \in DOMAIN F
            THEN ListNode(F[v.name].list)
            ELSE IF v.kind \in {"fill", "text"} THEN v
            ELSE [v EXCEPT !.list = ReplaceAll(@, F), !.elseList = ReplaceAll(@, F)]]

\* A body without its Fill nodes.
RECURSIVE NoFills(_)
NoFills(nodes) ==
    IF nodes = <<>> THEN <<>>
    ELSE LET v == Head(nodes)
         IN  (IF v.kind = "fill" THEN <<>>
              ELSE <<[v EXCEPT !.list = NoFills(@), !.elseList = NoFills(@)]>>)
             \o NoFills(Tail(nodes))

\* C24: after the child's Fills have been applied to the copy of the
\* parent's body, the copy is, Fill nodes apart, the parent's body with every
\* Block named by a top-level Fill of the child replaced by that Fill's
\* content wherever it stands, and every other Block left with its default.
C24_EveryBlockReplaced ==
    pc = "cleanup" =>
        NoFills(tree["t2"].List)
            = NoFills(ReplaceAll(tree0["t1"].List, collectFillers(tree0["t2"].List)))

(***************************************************************************)
(* C25.  The commands ensurePipelineContains examines, for matching and    *)
(* for the noescape sentinel, are exactly the maximal suffix of commands   *)
(* that start with an identifier: the sentinel counts only there, the      *)
(* identifier run handed to the matching loop is that suffix, so every     *)
(* examined command is an identifier command and the call does not panic,  *)
(* and the commands left of the suffix are as they were.                   *)
(***************************************************************************)
Examined(p) == scanIdents(p, Len(p), p)

C25_ScanStopsAtNonIdent ==
    (calls = 1 /\ req # <<>>) =>
        LET T == TrailingIdents(cmds0)
            left == Len(cmds0) - Len(T)
        IN  /\ Examined(cmds0).exempt <=> Exempt(T)
            /\ ~Examined(cmds0).exempt =>
                  /\ Examined(cmds0).idents = T
                  /\ \A k \in 1..Len(Examined(cmds0).idents) :
                        Examined(cmds0).idents[k].ident
            /\ ~panicked
            /\ Len(cmds) >= left
            /\ SubSeq(cmds, 1, left) = SubSeq(cmds0, 1, left)

(***************************************************************************)
(* What C26 speaks of: where the required names go.                        *)
(***************************************************************************)
IdentCmds(names) == [k \in 1..Len(names) |-> newIdentCmd(names[k])]

\* The trailing identifiers T with the names of s put in: the names that
\* precede in s the name an identifier matches stand immediately before that
\* identifier, the names after the last match stand at the end, in order.
RECURSIVE Placed(_, _)
Placed(T, s) ==
    IF T = <<>> THEN IdentCmds(s)
    ELSE LET m == {i \in 1..Len(s) : escFnsEq(T[1].name, s[i])}
         IN  IF m = {} THEN <<T[1]>> \o Placed(Tail(T), s)
             ELSE IdentCmds(SubSeq(s, 1, Min(m) - 1)) \o <<T[1]>>
                      \o Placed(Tail(T), SubSeq(s, Min(m) + 1, Len(s)))

\* cl without the commands that are redundant after the command kept
\* before them.
RECURSIVE Unredundant(_)
Unredundant(cl) ==
    IF Len(cl) < 2 THEN cl
    ELSE LET front == Unredundant(SubSeq(cl, 1, Len(cl) - 1))
         IN  IF redundantFuncs(front[Len(front)].name, cl[Len(cl)].name)
             THEN front
             ELSE Append(front, cl[Len(cl)])

LeftOfIdents(p) == SubSeq(p, 1, Len(p) - Len(TrailingIdents(p)))

Inserts == calls = 1 /\ ~panicked /\ cmds # cmds0

\* The three pipelines the claim gives, as a call and its result.
Example(p, s, result) == (calls = 1 /\ cmds0 = p /\ req = s) => (~panicked /\ cmds = result)

C26_Examples ==
    /\ Example(<<FieldCmd(".X"), newIdentCmd("html"), newIdentCmd("print")>>,
               <<"urlquery", "html">>,
               <<FieldCmd(".X"), newIdentCmd("urlquery"), newIdentCmd("html"),
                 newIdentCmd("print")>>)
    /\ Example(<<FieldCmd(".X"), newIdentCmd("urlquery")>>,
               <<"html", "urlquery">>,
               <<FieldCmd(".X"), newIdentCmd("html"), newIdentCmd("urlquery")>>)
    /\ Example(<<FieldCmd(".X"), newIdentCmd("html")>>,
               <<"urlquery">>,
               <<FieldCmd(".X"), newIdentCmd("html"), newIdentCmd("urlquery")>>)

\* C26 as stated: a call that changes the pipeline leaves the commands left
\* of the trailing identifiers followed by the trailing identifiers with
\* every required name put in, before its match or at the end.
C26_Original ==
    /\ C26_Examples
    /\ Inserts => cmds = LeftOfIdents(cmds0) \o Placed(TrailingIdents(cmds0), req)

(***************************************************************************)
(* C26 (amended).  When ensurePipelineContains inserts commands, every     *)
(* required name that precedes in s a name matched by an existing trailing *)
(* identifier goes immediately before that identifier and the required     *)
(* names after the last match go to the end of the pipeline in order,      *)
(* except that a command is left out where it is redundant after the       *)
(* command that precedes it in the result; the three pipelines of the      *)
(* claim come out as it says.                                              *)
(***************************************************************************)
C26_InsertedUnlessRedundant ==
    /\ C26_Examples
    /\ Inserts =>
          cmds = LeftOfIdents(cmds0) \o Unredundant(Placed(TrailingIdents(cmds0), req))

\* (.X | html | print) with [urlquery, html] has become
\* (.X | urlquery | html | print).
C26_Witness ==
    /\ Inserts
    /\ cmds0 = <<FieldCmd(".X"), newIdentCmd("html"), newIdentCmd("print")>>
    /\ req = <<"urlquery", "html">>
    /\ cmds = <<FieldCmd(".X"), newIdentCmd("urlquery"), newIdentCmd("html"),
                newIdentCmd("print")>>

(***************************************************************************)
(* C27.  An inheritance error leaves the tree untouched: when inlineTree   *)
(* returns an error it is the impossible-recursion or the template-not-    *)
(* found error, every Define has the Parent and the body it was parsed     *)
(* with and no list object was written or allocated; inlineDefine is       *)
(* called only on a tree in which every ancestor chain ends at a root, so  *)
(* the error is always raised by compilationOrder, before the first        *)
(* inlineDefine call.                                                      *)
(***************************************************************************)
ParsedHeap == parseTree(SubSeq(TemplateNames, 1, NumTemplates), tree0)

C27_ErrorLeavesTree ==
    (tree0 # <<>> /\ heap # <<>>) =>
        /\ (pc = "done" /\ err.kind # "ok") =>
              /\ err.kind \in {"recursion", "notfound"}
              /\ tree = ParsedHeap.tree
              /\ heap = ParsedHeap.heap
              /\ Bodies(heap, tree) = tree0
        /\ pc = "inline" => (~HasCycle /\ ~HasAbsent)
        /\ (HasCycle \/ HasAbsent) => (heap = ParsedHeap.heap /\ tree = ParsedHeap.tree)

\* A tree with a sound child of a root next to a template whose parent is
\* absent: the error is returned and the child is as parsed, still with its
\* parent.
C27_Witness ==
    /\ pc = "done"
    /\ runs = 1
    /\ err.kind = "notfound"
    /\ heap # <<>>
    /\ \E c \in DOMAIN tree : tree[c].Parent \in DOMAIN tree
                               /\ tree[tree[c].Parent].Parent = ""
    /\ Bodies(heap, tree) = tree0

(***************************************************************************)
(* C28.  inlineTree is idempotent on its own output: called again on a     *)
(* tree on which it has succeeded, it returns no error and leaves every    *)
(* Define with the Parent and the body the first call gave it, also while  *)
(* the second call is under way.                                           *)
(***************************************************************************)
C28_SecondRunChangesNothing ==
    tree1 # <<>> =>
        /\ err.kind = "ok"
        /\ Bodies(heap, tree) = tree1

\* The second call has returned on a tree whose first call rewrote a child
\* of a root.
C28_Witness ==
    /\ pc = "done"
    /\ runs = 2
    /\ err.kind = "ok"
    /\ \E t \in DOMAIN tree0 : tree0[t].Parent # "" /\ tree1[t] # tree0[t]
    /\ Bodies(heap, tree) = tree1

(***************************************************************************)
(* C29.  The flattened result is deterministic: on a tree on which         *)
(* inlineTree succeeds, the final Parent and body of every Define are      *)
(* those of the run in which `range tree` yields the names in their        *)
(* written order, whatever order `range tree` and `range unused` took.     *)
(***************************************************************************)
WrittenOrder == SubSeq(TemplateNames, 1, NumTemplates)

\* A result of inlineTree with `range tree` in the written order.
Reference ==
    (CHOOSE r \in inlineAll(tree0, compilationOrder(tree0, WrittenOrder).order, 1) :
         TRUE).tree

C29_Deterministic ==
    (pc = "done" /\ err.kind = "ok" /\ tree0 # <<>> /\ heap # <<>>) =>
        Bodies(heap, tree) = Reference

\* A run whose order is not the reference run's, on a tree with a child
\* that has two unused Fills.
C29_Witness ==
    /\ pc = "done"
    /\ err.kind = "ok"
    /\ runs = 1
    /\ heap # <<>>
    /\ Bodies(heap, tree) = Reference
    /\ \E t \in DOMAIN tree0 :
          /\ tree0[t].Parent # ""
          /\ Cardinality(unusedAfter(tree0[t], tree0[tree0[t].Parent])) = 2

(***************************************************************************)
(* C30.  Every access to a Set's shared state by Parse, Compile, Clone,    *)
(* Escape and Funcs is made with the Set's mutex held: when one of these   *)
(* calls has just returned on a Set, no other goroutine is inside Compile  *)
(* on that Set, holding its mutex.                                         *)
(***************************************************************************)
CompileInProgress(st) ==
    \E g \in Goroutines : gor[g].at \in {"inline", "escape"} /\ gor[g].set = st

C30_MutexHeld ==
    (pc = "set" /\ hist.last.op \in {"Parse", "Clone", "Escape", "Funcs"}) =>
        /\ ~CompileInProgress(hist.last.set)
        /\ sets[hist.last.set].mutex = 0

====
